---- MODULE Spec2Model ----
(***************************************************************************)
(* A model of the multi-RBL DNS server: the request router of              *)
(* RBLDnsServer.handleQuery, the deadline-bounded fan-out of               *)
(* performMultiRblLookup, the cache-aware resolver                         *)
(* lookupSingleRblWithCache, the upstream forwarder, and the two-tier      *)
(* cache (MemcacheClient in front of the rbl_cache table).                 *)
(*                                                                         *)
(* One action is one turn of the Node.js event loop: a callback together   *)
(* with every promise continuation it makes runnable.  A memcached command *)
(* takes effect when it is issued (one connection, served in order) and    *)
(* its reply is a later turn; a PostgreSQL statement takes effect at some  *)
(* point after it is issued (pool of connections) and its reply is a later *)
(* turn again.                                                             *)
(***************************************************************************)
EXTENDS Integers, Sequences, FiniteSets, TLC

VARIABLES
  clock,      \* Date.now(), in milliseconds
  l1Enabled,  \* MemcacheClient.enabled
  l1,         \* memcached: key -> [value, srvExp]
  l2,         \* table rbl_cache: <<ip, rbl_host>> -> row
  lk,         \* calls of lookupSingleRblWithCache / getCached: id -> task
  puts,       \* calls of CacheDatabase.cache whose upsert is in flight
  req,        \* the request handleQuery is working on
  resp,       \* its response object
  agg,        \* the locals of performMultiRblLookup
  fwd,        \* the upstream request of forwardQuery
  nreq,       \* requests received so far
  custom,     \* table custom_rbl_entries: id -> row
  srv         \* the sockets and the interval timers of RBLDnsServer

vars ==
  <<clock, l1Enabled, l1, l2, lk, puts, req, resp, agg, fwd, nreq, custom,
    srv>>

-----------------------------------------------------------------------------
(* Program constants *)

MultiRblTimeout == 250
LookupTimeout == 5000
ForwardTimeout == 5000
TtlDefault == 3600
TtlNotListed == 3600
TtlError == 300
AggTtl == 300
SweepEvery == 300000
StatsEvery == 3600000
MaxTxtRecords == 5

(* Bounds of the model *)

MaxReqs == 2
MaxAggReqs == 1
MaxGets == 2
MaxPuts == 2

NULL == "null"

\* null where the value, when there is one, is an object: <<>> or <<object>>
None == <<>>
Some(x) == <<x>>

\* the null of the two parsers of a query name (an address has 4 labels)
NoIp == <<>>

-----------------------------------------------------------------------------
(* Configuration: etc/rbl-servers.json and etc/multi-rbl-zones.json.       *)
(* A name is the sequence of its labels.                                   *)

HostA == <<"zen", "org">>
HostB == <<"bl", "net">>
HostC == <<"sbl", "zen", "org">>

RblServersList ==
  << [name |-> "Zen", host |-> HostA],
     [name |-> "Bl",  host |-> HostB],
     [name |-> "Sbl", host |-> HostC] >>

\* zone.rbls === '*' is the flag all; otherwise rbls lists hosts
MultiRblZones ==
  << [domain |-> <<"multi", "com">>, all |-> TRUE,  rbls |-> {}],
     [domain |-> <<"two", "net">>,   all |-> FALSE,
      rbls |-> {HostA, HostB, <<"gone", "org">>}] >>

UpstreamDns == "8.8.8.8"

-----------------------------------------------------------------------------
(* Sequences *)

Reverse(s) == [i \in 1..Len(s) |-> s[Len(s) + 1 - i]]

Min(a, b) == IF a <= b THEN a ELSE b

-----------------------------------------------------------------------------
(* JavaScript values *)

\* parseInt(label, 10) on the labels the model uses; NaN is -1000
NaN == -1000
NumOf ==
  [l \in {"0", "1", "2", "3", "4", "01", "02", "127", "255", "256", "1x"} |->
     CASE l = "0" -> 0 [] l = "1" -> 1 [] l = "2" -> 2 [] l = "3" -> 3
       [] l = "4" -> 4 [] l = "01" -> 1 [] l = "02" -> 2 [] l = "127" -> 127
       [] l = "255" -> 255 [] l = "256" -> 256 [] l = "1x" -> 1]
ParseInt(l) == IF l \in DOMAIN NumOf THEN NumOf[l] ELSE NaN

\* the decimal text of an octet
StrOf(n) ==
  CASE n = 0 -> "0" [] n = 1 -> "1" [] n = 2 -> "2" [] n = 3 -> "3"
    [] n = 4 -> "4" [] n = 127 -> "127" [] n = 255 -> "255"

\* if (x): the truthiness of a value that is a string, "true"/"false" or null
Truthy(x) == x \notin {NULL, "false", ""}

\* x === true
StrictTrue(x) == IF x = "true" THEN "true" ELSE "false"

\* n || d on numbers
OrDefault(n, d) == IF n = 0 THEN d ELSE n

\* queryName.endsWith(`.${zone}`)
EndsWithZone(q, zone) ==
  /\ Len(q) > Len(zone)
  /\ SubSeq(q, Len(q) - Len(zone) + 1, Len(q)) = zone

\* the places where `.${zone}` occurs in q (the labels after place i)
Occurrences(q, zone) ==
  {i \in 1..(Len(q) - Len(zone)) : SubSeq(q, i + 1, i + Len(zone)) = zone}

\* query.replace(`.${zone}`, ''): the FIRST occurrence is removed
ReplaceFirst(q, zone) ==
  IF Occurrences(q, zone) = {} THEN q
  ELSE LET i == CHOOSE j \in Occurrences(q, zone) :
                  \A k \in Occurrences(q, zone) : j <= k
       IN SubSeq(q, 1, i) \o SubSeq(q, i + Len(zone) + 1, Len(q))

ValidOctets(parts) ==
  \A i \in 1..Len(parts) :
    LET num == ParseInt(parts[i]) IN num # NaN /\ num >= 0 /\ num <= 255

\* RBLDnsServer.parseReverseIp
parseReverseIp(query, rblHost) ==
  LET prefix == ReplaceFirst(query, rblHost)
      parts == Reverse(prefix)
  IN IF Len(parts) # 4 THEN NoIp
     ELSE IF ~ValidOctets(parts) THEN NoIp
     ELSE parts

\* RBLDnsServer.parseMultiRblIp
parseMultiRblIp(query, domain) ==
  IF ~EndsWithZone(query, domain) THEN NoIp
  ELSE LET parts == ReplaceFirst(query, domain)
       IN IF Len(parts) # 4 THEN NoIp
          ELSE IF ~ValidOctets(parts) THEN NoIp
          ELSE Reverse(parts)

\* reverseIp (IPv4)
reverseIp(ip) == Reverse(ip)

-----------------------------------------------------------------------------
(* The two cache tiers *)

\* Math.floor(Date.now() / 1000)
NowSec(ms) == ms \div 1000

\* MemcacheClient.generateKey
generateKey(ip, rblHost) == <<"rbl", ip, rblHost>>

\* a column that keeps the text as it was given
RawText(ip) == ip

\* $1::inet followed by host(ip): the canonical text of an address
Inet(ip) == [i \in 1..Len(ip) |-> StrOf(ParseInt(ip[i]))]

\* memcached: an item set with expires = 0 never expires
McNever == -1
McExpiry(ttl, nowS) == IF ttl = 0 THEN McNever ELSE nowS + ttl

\* memcached get: an item is gone once its expiry time is reached
McGet(store, key, nowS) ==
  IF key \in DOMAIN store
     /\ (store[key].srvExp = McNever \/ nowS < store[key].srvExp)
  THEN Some(store[key].value)
  ELSE None

\* memcached set
McSet(store, key, value, ttl, nowS) ==
  [k \in DOMAIN store \cup {key} |->
     IF k = key THEN [value |-> value, srvExp |-> McExpiry(ttl, nowS)]
     ELSE store[k]]

\* memcached delete
McDelete(store, key) == [k \in DOMAIN store \ {key} |-> store[k]]

\* a client that trusts the expiry time memcached keeps
McTrusted(value, nowS) == TRUE

\* MemcacheClient.get, after the server's reply: the expiry check
McFresh(value, nowS) ==
  ~(value.expiresAt # 0 /\ value.expiresAt <= nowS)

\* the object CacheDatabase.cache builds
CacheData(ip, rblHost, listed, response, error, ttl, now) ==
  [ip |-> ip, rblHost |-> rblHost, listed |-> listed, response |-> response,
   error |-> error, ttl |-> ttl, cachedAt |-> now, expiresAt |-> now + ttl,
   fromCache |-> FALSE, cacheSource |-> NULL]

\* $1::inet accepts the text: every part is a decimal number up to 255
InetOk(ip) ==
  \A i \in 1..Len(ip) :
    ip[i] \in {"0", "1", "2", "3", "4", "01", "02", "127", "255"}

\* SELECT ... WHERE ip = $1::inet AND rbl_host = $2 AND expires_at > $3;
\* a text that is no address raises an error, which getCached catches and
\* answers with null
SelectCached(table, ip, rblHost, now) ==
  IF ~InetOk(ip) THEN None
  ELSE LET k == <<Inet(ip), rblHost>>
       IN IF k \in DOMAIN table /\ table[k].expiresAt > now
          THEN Some(table[k]) ELSE None

\* INSERT ... ON CONFLICT(ip, rbl_host) DO UPDATE; the error of a text that
\* is no address is caught and logged by cache
Upsert(table, d) ==
  IF ~InetOk(d.ip) THEN table
  ELSE LET k == <<Inet(d.ip), d.rblHost>>
       IN [x \in DOMAIN table \cup {k} |->
             IF x = k THEN [d EXCEPT !.ip = Inet(d.ip)] ELSE table[x]]

\* getCached: the object built from a row of the table
FromRow(row) == [row EXCEPT !.fromCache = TRUE, !.cacheSource = "postgres"]

\* getCached: the object built from a memcache hit
FromMemcache(value) ==
  [value EXCEPT !.fromCache = TRUE, !.cacheSource = "memcache"]

-----------------------------------------------------------------------------
(* lookupSingleRbl: the classification of what dns.resolve4 did *)

\* what the resolver (or the 5 s timer racing it) can do with one query
UpstreamAnswers ==
  { <<[address |-> "127.0.0.2", ttl |-> 900]>>,
    <<[address |-> "127.0.0.4", ttl |-> 0],
      [address |-> "127.0.0.2", ttl |-> 60]>> }
UpstreamErrorCodes == {"ENOTFOUND", "ENODATA", "ESERVFAIL"}
UpstreamOutcomes ==
  [kind : {"answer"}, records : UpstreamAnswers, code : {NULL}]
    \cup [kind : {"error"}, records : {<<>>}, code : UpstreamErrorCodes]
\* reject(new Error('Timeout')): an error without a code
TimeoutOutcome == [kind |-> "error", records |-> <<>>, code |-> "Timeout"]

\* error.message of a rejection
ErrorMessage(outcome) == outcome.code

\* a test for one of the two codes only
IsNoData(outcome) == outcome.code = "ENODATA"

\* error.code === 'ENOTFOUND' || error.code === 'ENODATA'
IsNotFound(outcome) == outcome.code \in {"ENOTFOUND", "ENODATA"}

ListedResult(server, records, responseTime) ==
  [name |-> server.name, host |-> server.host, listed |-> "true",
   response |-> IF Len(records) > 0 THEN records[1].address ELSE NULL,
   responseTime |-> responseTime, error |-> NULL,
   ttl |-> IF Len(records) > 0 THEN OrDefault(records[1].ttl, TtlDefault)
           ELSE TtlDefault,
   fromCache |-> FALSE, cacheSource |-> NULL]

NotListedResult(server, responseTime) ==
  [name |-> server.name, host |-> server.host, listed |-> "false",
   response |-> NULL, responseTime |-> responseTime, error |-> NULL,
   ttl |-> TtlNotListed, fromCache |-> FALSE, cacheSource |-> NULL]

ErrorResult(server, outcome, responseTime) ==
  [name |-> server.name, host |-> server.host, listed |-> NULL,
   response |-> NULL, responseTime |-> responseTime,
   error |-> ErrorMessage(outcome),
   ttl |-> TtlError, fromCache |-> FALSE, cacheSource |-> NULL]

\* lookupSingleRbl, from the settling of the race on
Classify(server, outcome, responseTime) ==
  IF outcome.kind = "answer"
  THEN ListedResult(server, outcome.records, responseTime)
  ELSE IF IsNotFound(outcome) THEN NotListedResult(server, responseTime)
  ELSE ErrorResult(server, outcome, responseTime)

\* a cache hit passed on as if it had just been looked up
HitAsFresh(server, cached) ==
  [name |-> server.name, host |-> server.host, listed |-> cached.listed,
   response |-> cached.response, responseTime |-> 1,
   error |-> cached.error, ttl |-> cached.ttl,
   fromCache |-> FALSE, cacheSource |-> NULL]

\* lookupSingleRblWithCache: the result built from a cache hit
HitResult(server, cached) ==
  [name |-> server.name, host |-> server.host, listed |-> cached.listed,
   response |-> cached.response, responseTime |-> 0,
   error |-> cached.error, ttl |-> cached.ttl,
   fromCache |-> TRUE, cacheSource |-> NULL]

\* the arguments lookupSingleRblWithCache passes to db.cache
\* a write that stores result.listed as it is
PutRaw(ip, result, now) ==
  CacheData(ip, result.host, result.listed, result.response,
            result.error, result.ttl, now)

\* a write that leaves the error column empty
PutWithoutError(ip, result, now) ==
  CacheData(ip, result.host, StrictTrue(result.listed), result.response,
            NULL, result.ttl, now)

PutOf(ip, result, now) ==
  CacheData(ip, result.host, StrictTrue(result.listed), result.response,
            result.error, result.ttl, now)

-----------------------------------------------------------------------------
(* Tasks: one call of lookupSingleRblWithCache (kind "lookup") or of       *)
(* getCached alone (kind "get").  pc is the reply the call is waiting for. *)

NoServer == [name |-> NULL, host |-> <<>>]

\* getCached up to its first wait
StartGet(kind, server, ip, rblHost) ==
  [kind |-> kind, server |-> server, ip |-> ip, rblHost |-> rblHost,
   now |-> NowSec(clock),
   pc |-> IF l1Enabled THEN "l1get" ELSE "l2sel",
   mc |-> IF l1Enabled
          THEN McGet(l1, generateKey(ip, rblHost), NowSec(clock)) ELSE None,
   rows |-> None, checkedAt |-> NowSec(clock), cached |-> None,
   upstream |-> 0, startTime |-> 0, deadline |-> 0, outcome |-> None,
   result |-> None, doneAt |-> 0, l2failed |-> FALSE]

-----------------------------------------------------------------------------
(* The response object of native-dns and what the handlers put in it *)

NewResponse ==
  [rcode |-> "NOERROR", qr |-> 1, aa |-> 0, ra |-> 0,
   answer |-> <<>>, authority |-> <<>>, additional |-> <<>>, sent |-> 0]

NoTxt == [kind |-> NULL, name |-> NULL, a |-> 0, b |-> 0, c |-> 0, d |-> 0]

\* dns.A({name, address, ttl})
ARecord(name, address, ttl) ==
  [type |-> "A", name |-> name, address |-> address, txt |-> NoTxt,
   ttl |-> ttl]

\* dns.TXT({name, data, ttl}); the text is kept as the values it is made of
TxtRecord(name, txt, ttl) ==
  [type |-> "TXT", name |-> name, address |-> NULL, txt |-> txt, ttl |-> ttl]

\* response.send() is called
Send(r) == [r EXCEPT !.sent = @ + 1]

\* response.send() inside try blocks: when the call throws, the catch
\* around it sets SERVFAIL and calls send() again
RECURSIVE SendCaught(_, _, _)
SendCaught(r, throws, catches) ==
  IF throws = 0 \/ catches = 0 THEN Send(r)
  ELSE SendCaught([Send(r) EXCEPT !.rcode = "SERVFAIL"],
                  throws - 1, catches - 1)

\* the send of handleQuery: for an aggregate query the one catch around it
\* is that of attachServerHandlers, for a query of one RBL the catch of
\* handleQuery comes first
SendIn(catches, r) == SendCaught(r, srv.sendThrows, catches)

\* header.qr = 1, header.aa = 1, header.ra = 0
Owned(r) == [r EXCEPT !.qr = 1, !.aa = 1, !.ra = 0]

\* an answer that knows listed and not listed only
ResponseWithoutError(r, queryName, result) ==
  IF Truthy(result.listed)
  THEN [Owned(r) EXCEPT !.answer = Append(@,
          ARecord(queryName,
                  IF Truthy(result.response) THEN result.response
                  ELSE "127.0.0.2",
                  OrDefault(result.ttl, TtlDefault)))]
  ELSE [Owned(r) EXCEPT !.rcode = "NXDOMAIN"]

\* handleQuery: the answer to a single-RBL query, from a lookup result
SingleResponse(r, queryName, result) ==
  LET o == Owned(r)
  IN IF Truthy(result.listed)
     THEN [o EXCEPT !.answer = Append(@,
             ARecord(queryName,
                     IF Truthy(result.response) THEN result.response
                     ELSE "127.0.0.2",
                     OrDefault(result.ttl, TtlDefault)))]
     ELSE IF Truthy(result.error)
     THEN [o EXCEPT !.rcode = "SERVFAIL"]
     ELSE [o EXCEPT !.rcode = "NXDOMAIN"]

IsListed(result) == Truthy(result.listed)

\* results.filter(r => r.listed).length
ListedCount(results) == Len(SelectSeq(results, IsListed))

\* results.length
CompletedCount(results) == Len(results)

\* performMultiRblLookup: rblsToCheck, as places in rblServersList
RblsToCheck(zone) ==
  LET Chosen(i) == zone.all \/ RblServersList[i].host \in zone.rbls
      RECURSIVE Pick(_)
      Pick(i) == IF i > Len(RblServersList) THEN <<>>
                 ELSE (IF Chosen(i) THEN <<i>> ELSE <<>>) \o Pick(i + 1)
  IN Pick(1)

\* the hosts a zone's configuration lists, resolvable or not
ListedHosts(zone) == Cardinality(zone.rbls)

\* rblsToCheck.length
TotalCount(zone) == Len(RblsToCheck(zone))

SummaryTxt(listedCount, completedCount, totalCount, elapsed) ==
  [kind |-> "summary", name |-> NULL, a |-> listedCount,
   b |-> completedCount, c |-> totalCount, d |-> elapsed]

ListingTxt(result) ==
  [kind |-> "listed", name |-> result.name, a |-> 0, b |-> 0, c |-> 0,
   d |-> 0]

MoreTxt(listedLength) ==
  [kind |-> "more", name |-> NULL, a |-> listedLength - MaxTxtRecords,
   b |-> MaxTxtRecords, c |-> listedLength, d |-> 0]

\* an answer that leaves the rcode alone when nothing is listed
AggEmptyNoError(r, queryName, queryType, results, totalCount, elapsed) ==
  IF ListedCount(results) > 0
  THEN [Owned(r) EXCEPT !.answer =
          Append(@, ARecord(queryName, "127.0.0.2", AggTtl))]
  ELSE Owned(r)

\* an answer that passes on the address and the TTL of the first listing
AggFirstListing(r, queryName, queryType, results, totalCount, elapsed) ==
  LET listedResults == SelectSeq(results, IsListed)
  IN IF Len(listedResults) > 0
     THEN [Owned(r) EXCEPT !.answer =
             Append(@, ARecord(queryName, listedResults[1].response,
                               listedResults[1].ttl))]
     ELSE [Owned(r) EXCEPT !.rcode = "NXDOMAIN"]

\* an answer that names every listing, however many there are
AggEveryListing(r, queryName, queryType, results, totalCount, elapsed) ==
  LET listedResults == SelectSeq(results, IsListed)
  IN IF Len(listedResults) > 0
     THEN [Owned(r) EXCEPT !.answer =
             @ \o <<TxtRecord(queryName,
                      SummaryTxt(Len(listedResults), Len(results),
                                 totalCount, elapsed), AggTtl)>>
               \o [i \in 1..Len(listedResults) |->
                     TxtRecord(queryName, ListingTxt(listedResults[i]),
                               AggTtl)]]
     ELSE [Owned(r) EXCEPT !.rcode = "NXDOMAIN"]

\* performMultiRblLookup, from the settling of the race on
AggResponse(r, queryName, queryType, results, totalCount, elapsed) ==
  LET o == Owned(r)
      completedCount == CompletedCount(results)
      listedCount == ListedCount(results)
      listedResults == SelectSeq(results, IsListed)
      shown == SubSeq(listedResults, 1, Min(MaxTxtRecords, Len(listedResults)))
  IN IF listedCount > 0
     THEN IF queryType = "TXT"
          THEN [o EXCEPT !.answer =
                  @ \o <<TxtRecord(queryName,
                           SummaryTxt(listedCount, completedCount,
                                      totalCount, elapsed), AggTtl)>>
                    \o [i \in 1..Len(shown) |->
                          TxtRecord(queryName, ListingTxt(shown[i]), AggTtl)]
                    \o (IF Len(listedResults) > MaxTxtRecords
                        THEN <<TxtRecord(queryName,
                                 MoreTxt(Len(listedResults)), AggTtl)>>
                        ELSE <<>>)]
          ELSE [o EXCEPT !.answer =
                  Append(@, ARecord(queryName, "127.0.0.2", AggTtl))]
     ELSE [o EXCEPT !.rcode = "NXDOMAIN"]

-----------------------------------------------------------------------------
(* handleQuery: where a query goes *)

RECURSIVE FirstZone(_, _)
\* for (const zone of this.multiRblZones) ... break
FirstZone(q, z) ==
  IF z > Len(MultiRblZones) THEN 0
  ELSE IF EndsWithZone(q, MultiRblZones[z].domain) THEN z
  ELSE FirstZone(q, z + 1)

RECURSIVE FirstRbl(_, _)
\* for (const host of Object.keys(this.rblServers)) ... break
FirstRbl(q, i) ==
  IF i > Len(RblServersList) THEN 0
  ELSE IF EndsWithZone(q, RblServersList[i].host) THEN i
  ELSE FirstRbl(q, i + 1)

Route(queryName, queryType) ==
  LET z == FirstZone(queryName, 1)
      aggIp == IF z > 0 THEN parseMultiRblIp(queryName, MultiRblZones[z].domain)
               ELSE NoIp
      i == FirstRbl(queryName, 1)
      ip == IF i > 0 THEN parseReverseIp(queryName, RblServersList[i].host)
            ELSE NoIp
  IN IF z > 0 /\ aggIp # NoIp
     THEN [path |-> "agg", zone |-> z, rbl |-> 0, ip |-> aggIp]
     ELSE IF queryType # "A"
     THEN [path |-> "forward", zone |-> 0, rbl |-> 0, ip |-> NoIp]
     ELSE IF i = 0 \/ ip = NoIp
     THEN [path |-> "forward", zone |-> 0, rbl |-> 0, ip |-> NoIp]
     ELSE [path |-> "single", zone |-> 0, rbl |-> i, ip |-> ip]

-----------------------------------------------------------------------------
(* State *)

\* the instants the clock is looked at, besides the deadlines of the timers
Times == {100, 300000}

\* queries clients send: <<name, type>>
Ip1Rev == <<"2", "0", "0", "127">>
Queries ==
  { <<Ip1Rev \o <<"multi", "com">>, "A">>,
    <<Ip1Rev \o <<"multi", "com">>, "TXT">>,
    <<Ip1Rev \o <<"two", "net">>, "A">>,
    <<Ip1Rev \o HostA, "A">>,
    <<Ip1Rev \o HostA, "TXT">>,
    <<Ip1Rev \o HostC, "A">>,
    <<<<"256", "0", "0", "127">> \o HostA, "A">>,
    <<<<"1x", "0", "0", "127">> \o HostA, "A">>,
    <<<<"0", "0", "127">> \o HostB, "A">>,
    <<<<"x", "0", "0", "127">> \o <<"two", "net">>, "A">>,
    <<<<"www", "example", "com">>, "A">> }

\* what the upstream resolver of forwardQuery can hand to the 'message' handler
FwdMessages ==
  { [err |-> FALSE, rcode |-> "NOERROR",
     answer |-> <<ARecord(<<"www", "example", "com">>, "93.184.216.34", 60)>>,
     authority |-> <<>>, additional |-> <<>>],
    [err |-> FALSE, rcode |-> "SERVFAIL",
     answer |-> <<>>, authority |-> <<>>, additional |-> <<>>],
    [err |-> TRUE, rcode |-> NULL,
     answer |-> <<>>, authority |-> <<>>, additional |-> <<>>] }

NoReq ==
  [n |-> 0, pc |-> "idle", qname |-> <<>>, qtype |-> NULL, path |-> NULL,
   ip |-> NoIp, rbl |-> 0]

NoAgg ==
  [n |-> 0, zone |-> 0, total |-> 0, completedResults |-> <<>>,
   settledCount |-> 0, cacheHits |-> 0, cacheMisses |-> 0,
   startTime |-> 0, deadline |-> 0, timer |-> "none", raced |-> FALSE,
   timedOut |-> FALSE, elapsed |-> 0, atWake |-> {}]

NoFwd == [pc |-> "none", deadline |-> 0]

\* RBLDnsServer after start(): both sockets are bound and the two
\* setInterval timers are set, the sweep of expired entries every five
\* minutes and the statistics every hour; stoppedAt is the number of calls
\* made when stop() returned; sendThrows is the number of calls of send()
\* on one response that raise an exception
Started ==
  [listening |-> TRUE, sweepDue |-> SweepEvery, statsDue |-> StatsEvery,
   stoppedAt |-> 0, sendThrows |-> 0]

Init ==
  /\ clock = 0
  /\ l1Enabled \in BOOLEAN
  /\ l1 = <<>>
  /\ l2 = <<>>
  /\ lk = <<>>
  /\ puts = {}
  /\ req = NoReq
  /\ resp = NewResponse
  /\ agg = NoAgg
  /\ fwd = NoFwd
  /\ nreq = 0
  /\ custom = <<>>
  /\ srv = Started

-----------------------------------------------------------------------------
(* Continuations *)

\* the children of the aggregate a whose promise has settled, given the tasks
Settled(tasks, a) ==
  {i \in 1..Len(RblServersList) :
     <<a.n, i>> \in DOMAIN tasks /\ tasks[<<a.n, i>>].pc = "done"}

\* Promise.race has settled: performMultiRblLookup resumes, builds the
\* answer from completedResults, returns, and handleQuery sends
AggFinish(a, timedOut, tasks) ==
  LET elapsed == clock - a.startTime
  IN /\ resp' = SendIn(1, AggResponse(resp, req.qname, req.qtype,
                                 a.completedResults,
                                 TotalCount(MultiRblZones[a.zone]), elapsed))
     /\ req' = [req EXCEPT !.pc = "sent"]
     /\ agg' = [a EXCEPT !.raced = TRUE, !.timedOut = timedOut,
                         !.elapsed = elapsed, !.atWake = Settled(tasks, a)]

\* Promise.allSettled(lookupPromises) is the first to settle the race
AllSettledWins(a) == a.settledCount = a.total /\ ~a.raced

\* a call of lookupSingleRblWithCache returns: its caller goes on
Deliver(id, t2) ==
  LET tasks == [lk EXCEPT ![id] = t2]
      result == t2.result[1]
  IN /\ lk' = tasks
     /\ IF req.pc = "lookup" /\ req.n = id[1]
        THEN /\ resp' = SendIn(2, SingleResponse(resp, req.qname, result))
             /\ req' = [req EXCEPT !.pc = "sent"]
             /\ agg' = agg
        ELSE IF agg.n = id[1] /\ id[2] > 0
        THEN LET a1 == [agg EXCEPT
                          !.completedResults = Append(@, result),
                          !.settledCount = @ + 1,
                          !.cacheHits = IF result.fromCache THEN @ + 1 ELSE @,
                          !.cacheMisses = IF result.fromCache THEN @ ELSE @ + 1]
             IN IF AllSettledWins(a1)
                THEN AggFinish(a1, FALSE, tasks)
                ELSE agg' = a1 /\ UNCHANGED <<srv, custom, req, resp>>
        ELSE UNCHANGED <<srv, custom, req, resp, agg>>

\* getCached returns c (None for null): its caller goes on
GetReturn(id, t, c) ==
  IF t.kind = "get"
  THEN /\ lk' = [lk EXCEPT ![id] = [t EXCEPT !.pc = "done", !.cached = c]]
       /\ UNCHANGED <<srv, custom, req, resp, agg>>
  ELSE IF c # None
  THEN Deliver(id, [t EXCEPT !.pc = "done", !.cached = c,
                             !.result = Some(HitResult(t.server, c[1]))])
  ELSE \* lookupSingleRbl: dns.resolve4 and the timer that races it
       /\ lk' = [lk EXCEPT ![id] =
                   [t EXCEPT !.pc = "up", !.cached = None,
                             !.upstream = @ + 1, !.startTime = clock,
                             !.deadline = clock + LookupTimeout]]
       /\ UNCHANGED <<srv, custom, req, resp, agg>>

-----------------------------------------------------------------------------
(* getCached, reply by reply *)

\* the reply of memcached to the get of MemcacheClient.get
GetL1Reply(id) ==
  LET t == lk[id]
      key == generateKey(t.ip, t.rblHost)
  IN /\ t.pc = "l1get"
     /\ IF t.mc = None
        THEN /\ lk' = [lk EXCEPT ![id] = [t EXCEPT !.pc = "l2sel"]]
             /\ UNCHANGED <<srv, custom, l1, req, resp, agg>>
        ELSE IF McFresh(t.mc[1], NowSec(clock))
        THEN /\ GetReturn(id, [t EXCEPT !.checkedAt = NowSec(clock)],
                          Some(FromMemcache(t.mc[1])))
             /\ UNCHANGED l1
        ELSE /\ l1' = McDelete(l1, key)
             /\ lk' = [lk EXCEPT ![id] = [t EXCEPT !.pc = "l1del"]]
             /\ UNCHANGED <<srv, custom, req, resp, agg>>
     /\ UNCHANGED <<srv, custom, clock, l1Enabled, l2, puts, fwd, nreq>>

\* the reply of memcached to the delete of an expired item
GetL1DelReply(id) ==
  /\ lk[id].pc = "l1del"
  /\ lk' = [lk EXCEPT ![id].pc = "l2sel"]
  /\ UNCHANGED <<srv, custom, clock, l1Enabled, l1, l2, puts, req, resp, agg, fwd, nreq>>

\* PostgreSQL runs the SELECT of getCached
PgSelectExec(id) ==
  LET t == lk[id]
  IN /\ t.pc = "l2sel"
     /\ lk' = [lk EXCEPT ![id] =
                 [t EXCEPT !.pc = "l2rep",
                           !.rows = SelectCached(l2, t.ip, t.rblHost, t.now)]]
     /\ UNCHANGED <<srv, custom, clock, l1Enabled, l1, l2, puts, req, resp, agg, fwd, nreq>>

\* the rows reach getCached: a miss, or a hit and its backfill of memcache
GetL2Reply(id) ==
  LET t == lk[id]
  IN /\ t.pc = "l2rep"
     /\ IF t.rows = None
        THEN GetReturn(id, t, None) /\ UNCHANGED l1
        ELSE LET row == t.rows[1]
                 cacheData == FromRow(row)
                 remainingTtl == row.expiresAt - t.now
                 t1 == [t EXCEPT !.checkedAt = t.now]
             IN IF l1Enabled /\ remainingTtl > 0
                THEN /\ l1' = McSet(l1, generateKey(t.ip, t.rblHost),
                                    cacheData, remainingTtl, NowSec(clock))
                     /\ lk' = [lk EXCEPT ![id] =
                                 [t1 EXCEPT !.pc = "bf",
                                            !.cached = Some(cacheData)]]
                     /\ UNCHANGED <<srv, custom, req, resp, agg>>
                ELSE GetReturn(id, t1, Some(cacheData)) /\ UNCHANGED l1
     /\ UNCHANGED <<srv, custom, clock, l1Enabled, l2, puts, fwd, nreq>>

\* the reply of memcached to the backfill
GetBackfillReply(id) ==
  LET t == lk[id]
  IN /\ t.pc = "bf"
     /\ GetReturn(id, t, t.cached)
     /\ UNCHANGED <<srv, custom, clock, l1Enabled, l1, l2, puts, fwd, nreq>>

-----------------------------------------------------------------------------
(* lookupSingleRbl settles; CacheDatabase.cache *)

\* a lookup that leaves the cache alone
NoCacheCall(d, owner, awaited) == UNCHANGED <<srv, custom, l1, puts>>

\* db.cache(...) up to its wait: the memcache set, and the upsert it issues
CacheCall(d, owner, awaited) ==
  /\ l1' = IF l1Enabled
           THEN McSet(l1, generateKey(d.ip, d.rblHost), d, d.ttl, NowSec(clock))
           ELSE l1
  /\ puts' = puts \cup {[d |-> d, pc |-> "issued", owner |-> owner,
                          awaited |-> awaited, doneAt |-> 0]}

\* a lookup that is dropped, its result unwritten, once the aggregate it
\* belongs to has answered
SettleAbandoned(id, outcome) ==
  LET t == lk[id]
      result == Classify(t.server, outcome, clock - t.startTime)
  IN /\ t.pc = "up"
     /\ IF agg.raced /\ agg.n = id[1] /\ id[2] > 0
        THEN UNCHANGED <<srv, custom, l1, puts>>
        ELSE CacheCall(PutOf(t.ip, result, NowSec(clock)), id, FALSE)
     /\ Deliver(id, [t EXCEPT !.pc = "done", !.outcome = Some(outcome),
                               !.result = Some(result)])
     /\ UNCHANGED <<srv, custom, clock, l1Enabled, l2, fwd, nreq>>

UpstreamSettle(id, outcome) ==
  LET t == lk[id]
      result == Classify(t.server, outcome, clock - t.startTime)
  IN /\ t.pc = "up"
     /\ CacheCall(PutOf(t.ip, result, NowSec(clock)), id, FALSE)
     /\ Deliver(id, [t EXCEPT !.pc = "done", !.outcome = Some(outcome),
                               !.result = Some(result)])
     /\ UNCHANGED <<srv, custom, clock, l1Enabled, l2, fwd, nreq>>

\* dns.resolve4 settles first
UpstreamReply(id, outcomes) ==
  \E outcome \in outcomes : UpstreamSettle(id, outcome)

\* the 5 s timer settles first
UpstreamTimeout(id) ==
  /\ lk[id].pc = "up"
  /\ clock >= lk[id].deadline
  /\ UpstreamSettle(id, TimeoutOutcome)

\* PostgreSQL runs the upsert of cache; when nothing awaits the promise of
\* cache() (fire-and-forget) its reply changes nothing and is left out
PgUpsertExec(p) ==
  /\ p.pc = "issued"
  /\ l2' = Upsert(l2, p.d)
  /\ puts' = (puts \ {p}) \cup
             (IF p.awaited THEN {[p EXCEPT !.pc = "executed"]} ELSE {})
  /\ UNCHANGED <<srv, custom, clock, l1Enabled, l1, lk, req, resp, agg, fwd, nreq>>

\* its reply: cache() resolves; the call is kept, with the number of calls
\* made by then, as the record of what the caller was told
PutReply(p) ==
  /\ p.pc = "executed"
  /\ puts' = (puts \ {p}) \cup {[p EXCEPT !.pc = "done", !.doneAt = nreq]}
  /\ UNCHANGED <<srv, custom, clock, l1Enabled, l1, l2, lk, req, resp, agg, fwd, nreq>>

-----------------------------------------------------------------------------
(* handleQuery, first turn *)

\* the request before this one is over: answered, or left without an answer
\* by a forward whose upstream request timed out
Over ==
  \/ req.pc \in {"idle", "sent"}
  \/ req.pc = "forward" /\ fwd.pc = "timeout"

\* tasks that are still running, kept when a new request starts
Running == [id \in {i \in DOMAIN lk : lk[i].pc # "done"} |-> lk[id]]

NewReq(q, route) ==
  [n |-> nreq + 1, pc |-> route.path, qname |-> q[1], qtype |-> q[2],
   path |-> route.path, ip |-> route.ip, rbl |-> route.rbl]

\* an aggregate query: performMultiRblLookup up to its await
ArriveAggregate(q) ==
  LET route == Route(q[1], q[2])
      n == nreq + 1
      zone == MultiRblZones[route.zone]
      rblsToCheck == RblsToCheck(zone)
      children ==
        [id \in {<<n, rblsToCheck[j]>> : j \in 1..Len(rblsToCheck)} |->
           StartGet("lookup", RblServersList[id[2]], route.ip,
                    RblServersList[id[2]].host)]
      a == [NoAgg EXCEPT !.n = n, !.zone = route.zone,
                         !.total = Len(rblsToCheck), !.startTime = clock,
                         !.deadline = clock + MultiRblTimeout,
                         !.timer = "armed"]
  IN /\ Over
     /\ nreq < MaxAggReqs
     /\ route.path = "agg"
     /\ nreq' = n
     /\ lk' = children @@ Running
     /\ req' = [NewReq(q, route) EXCEPT !.pc = "agg"]
     /\ resp' = NewResponse
     /\ agg' = a
     /\ UNCHANGED <<srv, custom, clock, l1Enabled, l1, l2, puts, fwd>>

\* a query under the zone of one RBL: lookupSingleRblWithCache is called
ArriveSingle(q) ==
  LET route == Route(q[1], q[2])
      n == nreq + 1
      rblServer == RblServersList[route.rbl]
  IN /\ Over
     /\ nreq < MaxReqs
     /\ route.path = "single"
     /\ nreq' = n
     /\ lk' = (<<n, 0>> :> StartGet("lookup", rblServer, route.ip,
                                     rblServer.host)) @@ Running
     /\ req' = [NewReq(q, route) EXCEPT !.pc = "lookup"]
     /\ resp' = NewResponse
     /\ UNCHANGED <<srv, custom, clock, l1Enabled, l1, l2, puts, agg, fwd>>

\* any other query: forwardQuery sends it to the upstream resolver
ArriveForward(q) ==
  LET route == Route(q[1], q[2])
  IN /\ Over
     /\ nreq < MaxReqs
     /\ route.path = "forward"
     /\ nreq' = nreq + 1
     /\ lk' = Running
     /\ req' = [NewReq(q, route) EXCEPT !.pc = "forward"]
     /\ resp' = NewResponse
     /\ fwd' = [pc |-> "sent", deadline |-> clock + ForwardTimeout]
     /\ UNCHANGED <<srv, custom, clock, l1Enabled, l1, l2, puts, agg>>

-----------------------------------------------------------------------------
(* performMultiRblLookup: the timer of the race *)

\* a race that only Promise.allSettled can settle
TimerLoses(a) == FALSE

\* the timer is the first to settle the race
TimerWins(a) == ~a.raced

\* setTimeout(() => resolve('timeout'), this.multiRblTimeout) fires
AggTimerFire ==
  /\ agg.timer = "armed"
  /\ clock >= agg.deadline
  /\ IF TimerWins(agg)
     THEN AggFinish([agg EXCEPT !.timer = "fired"], TRUE, lk)
     ELSE /\ agg' = [agg EXCEPT !.timer = "fired"]
          /\ UNCHANGED <<srv, custom, req, resp>>
  /\ UNCHANGED <<srv, custom, clock, l1Enabled, l1, l2, lk, puts, fwd, nreq>>

-----------------------------------------------------------------------------
(* forwardQuery: the events of the upstream request *)

\* upstreamRequest.on('message', (err, msg) => ...)
FwdMessage(m) ==
  /\ fwd.pc = "sent"
  /\ fwd' = [fwd EXCEPT !.pc = IF m.err \/ m.rcode # "NOERROR"
                               THEN "failed" ELSE "done"]
  /\ resp' = IF m.err
             THEN Send([resp EXCEPT !.rcode = "SERVFAIL"])
             ELSE Send([resp EXCEPT !.answer = @ \o m.answer,
                                    !.authority = @ \o m.authority,
                                    !.additional = @ \o m.additional])
  /\ req' = [req EXCEPT !.pc = "sent"]
  /\ UNCHANGED <<srv, custom, clock, l1Enabled, l1, l2, lk, puts, agg, nreq>>

\* the request emits 'timeout' after 5 s: forwardQuery listens to 'message'
\* alone, so nothing runs
FwdTimeout ==
  /\ fwd.pc = "sent"
  /\ clock >= fwd.deadline
  /\ fwd' = [fwd EXCEPT !.pc = "timeout"]
  /\ UNCHANGED <<srv, custom, clock, l1Enabled, l1, l2, lk, puts, req, resp, agg, nreq>>

-----------------------------------------------------------------------------
(* Time *)

\* the deadlines of the armed timers
Deadlines ==
  (IF agg.timer = "armed" THEN {agg.deadline} ELSE {})
    \cup {lk[id].deadline : id \in {i \in DOMAIN lk : lk[i].pc = "up"}}
    \cup (IF fwd.pc = "sent" THEN {fwd.deadline} ELSE {})

\* time passes, but not beyond the deadline of an armed timer
Tick(times) ==
  /\ \A d \in Deadlines : d > clock
  /\ \E t \in times \cup Deadlines :
       /\ t > clock
       /\ clock' = IF \E d \in Deadlines : d < t
                   THEN CHOOSE d \in Deadlines : \A e \in Deadlines : d <= e
                   ELSE t
  /\ UNCHANGED <<srv, custom, l1Enabled, l1, l2, lk, puts, req, resp, agg, fwd, nreq>>

-----------------------------------------------------------------------------

(* The DNS server answering single-RBL and forwarded queries, one after    *)
(* the other, while the cache writes of earlier requests are in flight     *)

Next ==
  \/ \E q \in Queries : ArriveSingle(q)
  \/ \E q \in Queries : ArriveForward(q)
  \/ \E id \in DOMAIN lk : GetL1Reply(id)
  \/ \E id \in DOMAIN lk : GetL1DelReply(id)
  \/ \E id \in DOMAIN lk : PgSelectExec(id)
  \/ \E id \in DOMAIN lk : GetL2Reply(id)
  \/ \E id \in DOMAIN lk : GetBackfillReply(id)
  \/ \E id \in DOMAIN lk : UpstreamReply(id, UpstreamOutcomes)
  \/ \E id \in DOMAIN lk : UpstreamTimeout(id)
  \/ \E p \in puts : PgUpsertExec(p)
  \/ \E m \in FwdMessages : FwdMessage(m)
  \/ FwdTimeout
  \/ Tick(Times)

Spec == Init /\ [][Next]_vars

-----------------------------------------------------------------------------
(* The aggregate executor, memcache disabled (the default configuration)   *)

AggQueries ==
  { <<Ip1Rev \o <<"two", "net">>, "TXT">>,
    <<Ip1Rev \o <<"two", "net">>, "A">> }

AggOutcomes ==
  { [kind |-> "answer", records |-> <<[address |-> "127.0.0.2", ttl |-> 900]>>,
     code |-> NULL],
    [kind |-> "answer", records |-> <<[address |-> "127.0.0.4", ttl |-> 60]>>,
     code |-> NULL],
    [kind |-> "error", records |-> <<>>, code |-> "ENOTFOUND"],
    [kind |-> "error", records |-> <<>>, code |-> "ESERVFAIL"] }

AggTimes == {100}

InitAgg ==
  /\ clock = 0
  /\ l1Enabled = FALSE
  /\ l1 = <<>>
  /\ l2 = <<>>
  /\ lk = <<>>
  /\ puts = {}
  /\ req = NoReq
  /\ resp = NewResponse
  /\ agg = NoAgg
  /\ fwd = NoFwd
  /\ nreq = 0
  /\ custom = <<>>
  /\ srv = Started

NextAgg ==
  \/ \E q \in AggQueries : ArriveAggregate(q)
  \/ \E id \in DOMAIN lk : PgSelectExec(id)
  \/ \E id \in DOMAIN lk : GetL2Reply(id)
  \/ \E id \in DOMAIN lk : UpstreamReply(id, AggOutcomes)
  \/ \E id \in DOMAIN lk : UpstreamTimeout(id)
  \/ \E p \in puts : PgUpsertExec(p)
  \/ AggTimerFire
  \/ Tick(AggTimes)

SpecAgg == InitAgg /\ [][NextAgg]_vars

\* timers fire and time passes; nothing makes the resolver or the database
\* answer a child lookup
FairSpecAgg ==
  /\ SpecAgg
  /\ WF_vars(AggTimerFire)
  /\ WF_vars(\E id \in DOMAIN lk : UpstreamTimeout(id))
  /\ WF_vars(Tick(AggTimes))

-----------------------------------------------------------------------------
(* The cache on its own, memcache enabled: callers of getCached and cache   *)
(* on one key, any number of calls in flight                                *)

Ip1 == <<"127", "0", "0", "2">>

\* (listed, response, error, ttl) as lookupSingleRblWithCache passes them:
\* a Listed, a NotListed and an Error result
PutValues ==
  { [listed |-> "true",  response |-> "127.0.0.2", error |-> NULL,
     ttl |-> 900],
    [listed |-> "false", response |-> NULL, error |-> NULL,
     ttl |-> TtlNotListed],
    [listed |-> "false", response |-> NULL, error |-> "Timeout",
     ttl |-> TtlError] }

CacheTimes == {1000, 300000}

InitCache ==
  /\ clock = 0
  /\ l1Enabled = TRUE
  /\ l1 = <<>>
  /\ l2 = <<>>
  /\ lk = <<>>
  /\ puts = {}
  /\ req = NoReq
  /\ resp = NewResponse
  /\ agg = NoAgg
  /\ fwd = NoFwd
  /\ nreq = 0
  /\ custom = <<>>
  /\ srv = Started

\* db.getCached(ip, rblHost) is called
ClientGet ==
  /\ Cardinality(DOMAIN lk) < MaxGets
  /\ nreq' = nreq + 1
  /\ lk' = (<<nreq + 1, 0>> :> StartGet("get", NoServer, Ip1, HostA)) @@ lk
  /\ UNCHANGED <<srv, custom, clock, l1Enabled, l1, l2, puts, req, resp, agg, fwd>>

\* db.cache(ip, rblHost, listed, response, error, ttl) is called and awaited
ClientPut(v) ==
  /\ Cardinality(puts) < MaxPuts
  /\ nreq' = nreq + 1
  /\ CacheCall(CacheData(Ip1, HostA, v.listed, v.response, v.error, v.ttl,
                         NowSec(clock)),
               <<nreq + 1, 0>>, TRUE)
  /\ UNCHANGED <<srv, custom, clock, l1Enabled, l2, lk, req, resp, agg, fwd>>

NextCache ==
  \/ ClientGet
  \/ \E v \in PutValues : ClientPut(v)
  \/ \E id \in DOMAIN lk : GetL1Reply(id)
  \/ \E id \in DOMAIN lk : GetL1DelReply(id)
  \/ \E id \in DOMAIN lk : PgSelectExec(id)
  \/ \E id \in DOMAIN lk : GetL2Reply(id)
  \/ \E id \in DOMAIN lk : GetBackfillReply(id)
  \/ \E p \in puts : PgUpsertExec(p)
  \/ \E p \in puts : PutReply(p)
  \/ Tick(CacheTimes)

SpecCache == InitCache /\ [][NextCache]_vars

-----------------------------------------------------------------------------
(* The cache and its clear operations, memcache enabled: callers of         *)
(* getCached, cache, clearAll and clearIp that write the address of one     *)
(* key in two ways; no time passes                                          *)

MaxClearGets == 2
MaxClearPuts == 1
MaxClears == 1

\* the address of Ip1 as 2.0.0.127 and as 02.0.0.127 give it
Ip1Alt == <<"127", "0", "0", "02">>
IpForms == {Ip1, Ip1Alt}

ListedValue ==
  [listed |-> "true", response |-> "127.0.0.2", error |-> NULL, ttl |-> 900]

\* memcached flush_all
McFlush(store) == <<>>

\* DELETE FROM rbl_cache
DeleteAll(table) == <<>>

\* DELETE FROM rbl_cache WHERE ip = $1::inet; the error of a text that is no
\* address is caught and logged by clearIp
DeleteIp(table, ip) ==
  IF ~InetOk(ip) THEN table
  ELSE [k \in {x \in DOMAIN table : x[1] # Inet(ip)} |-> table[k]]

NoHost == <<>>
Clears == {id \in DOMAIN lk : lk[id].kind \in {"clearAll", "clearIp"}}
Gets == {id \in DOMAIN lk : lk[id].kind = "get"}

\* a call of clearAll or clearIp, up to its first wait
StartClear(kind, ip) ==
  [StartGet(kind, NoServer, ip, NoHost) EXCEPT
     !.pc = IF kind = "clearAll" /\ l1Enabled THEN "flush" ELSE "del",
     !.mc = None]

\* db.getCached(ip, rblHost) is called with one of the texts of the address
CallGet(ip, max) ==
  /\ Cardinality(Gets) < max
  /\ nreq' = nreq + 1
  /\ lk' = (<<nreq + 1, 0>> :> StartGet("get", NoServer, ip, HostA)) @@ lk
  /\ UNCHANGED <<srv, custom, clock, l1Enabled, l1, l2, puts, req, resp, agg, fwd>>

\* db.cache(ip, rblHost, ...) is called and awaited
CallPut(ip, v, max) ==
  /\ Cardinality(puts) < max
  /\ nreq' = nreq + 1
  /\ CacheCall(CacheData(ip, HostA, v.listed, v.response, v.error, v.ttl,
                         NowSec(clock)),
               <<nreq + 1, 0>>, TRUE)
  /\ UNCHANGED <<srv, custom, clock, l1Enabled, l2, lk, req, resp, agg, fwd>>

\* db.clearAll() is called: the flush goes to memcached; with memcache
\* disabled flush() returns false and the DELETE is issued in the same turn
CallClearAll ==
  /\ Cardinality(Clears) < MaxClears
  /\ nreq' = nreq + 1
  /\ l1' = IF l1Enabled THEN McFlush(l1) ELSE l1
  /\ lk' = (<<nreq + 1, 0>> :> StartClear("clearAll", NoIp)) @@ lk
  /\ UNCHANGED <<srv, custom, clock, l1Enabled, l2, puts, req, resp, agg, fwd>>

\* the reply of memcached to the flush: clearAll issues the DELETE
ClearFlushReply(id) ==
  /\ lk[id].pc = "flush"
  /\ lk' = [lk EXCEPT ![id].pc = "del"]
  /\ UNCHANGED <<srv, custom, clock, l1Enabled, l1, l2, puts, req, resp, agg, fwd, nreq>>

\* db.clearIp(ip) is called: the DELETE is issued, memcache is left alone
CallClearIp(ip) ==
  /\ Cardinality(Clears) < MaxClears
  /\ nreq' = nreq + 1
  /\ lk' = (<<nreq + 1, 0>> :> StartClear("clearIp", ip)) @@ lk
  /\ UNCHANGED <<srv, custom, clock, l1Enabled, l1, l2, puts, req, resp, agg, fwd>>

\* DELETE FROM rbl_cache WHERE expires_at <= $1
DeleteExpired(table, now) ==
  [k \in {x \in DOMAIN table : table[x].expiresAt > now} |-> table[k]]

\* the DELETE statement of clearAll, clearIp or cleanExpired
DeleteBy(kind, ip, now, table) ==
  CASE kind = "clearAll" -> DeleteAll(table)
    [] kind = "clearIp" -> DeleteIp(table, ip)
    [] kind = "cleanExpired" -> DeleteExpired(table, now)

\* result.rowCount of a DELETE
RowCount(table, after) ==
  [rowCount |-> Cardinality(DOMAIN table) - Cardinality(DOMAIN after)]

\* PostgreSQL runs the DELETE of clearAll, clearIp or cleanExpired
PgDeleteExec(id) ==
  LET t == lk[id]
      after == DeleteBy(t.kind, t.ip, t.now, l2)
  IN /\ t.pc = "del"
     /\ l2' = after
     /\ lk' = [lk EXCEPT ![id].pc = "delrep",
                         ![id].result = Some(RowCount(l2, after))]
     /\ UNCHANGED <<srv, custom, clock, l1Enabled, l1, puts, req, resp, agg, fwd, nreq>>

\* its reply: the clear operation resolves; the number of calls made by
\* then is kept as the record of when its caller was told
ClearReply(id) ==
  /\ lk[id].pc = "delrep"
  /\ lk' = [lk EXCEPT ![id].pc = "done", ![id].doneAt = nreq]
  /\ UNCHANGED <<srv, custom, clock, l1Enabled, l1, l2, puts, req, resp, agg, fwd, nreq>>

NextClear ==
  \/ \E ip \in IpForms : CallGet(ip, MaxClearGets)
  \/ \E ip \in IpForms : CallPut(ip, ListedValue, MaxClearPuts)
  \/ CallClearAll
  \/ \E ip \in IpForms : CallClearIp(ip)
  \/ \E id \in DOMAIN lk : GetL1Reply(id)
  \/ \E id \in DOMAIN lk : PgSelectExec(id)
  \/ \E id \in DOMAIN lk : GetL2Reply(id)
  \/ \E id \in DOMAIN lk : GetBackfillReply(id)
  \/ \E p \in puts : PgUpsertExec(p)
  \/ \E p \in puts : PutReply(p)
  \/ \E id \in DOMAIN lk : ClearFlushReply(id)
  \/ \E id \in DOMAIN lk : PgDeleteExec(id)
  \/ \E id \in DOMAIN lk : ClearReply(id)

SpecClear == InitCache /\ [][NextClear]_vars

-----------------------------------------------------------------------------
(* Concurrent calls of lookupSingleRblWithCache on one key, memcache        *)
(* enabled, as concurrent requests for one name make them                   *)

MaxMisses == 2

MissOutcomes ==
  { [kind |-> "answer", records |-> <<[address |-> "127.0.0.2", ttl |-> 900]>>,
     code |-> NULL],
    [kind |-> "error", records |-> <<>>, code |-> "ENOTFOUND"],
    [kind |-> "error", records |-> <<>>, code |-> "ESERVFAIL"] }

MissTimes == {1000}

\* lookupSingleRblWithCache(ip, rblServer, db) is called
CallLookup(ip) ==
  /\ Cardinality(DOMAIN lk) < MaxMisses
  /\ nreq' = nreq + 1
  /\ lk' = (<<nreq + 1, 0>> :>
              StartGet("lookup", RblServersList[1], ip,
                       RblServersList[1].host)) @@ lk
  /\ UNCHANGED <<srv, custom, clock, l1Enabled, l1, l2, puts, req, resp, agg, fwd>>

NextMiss ==
  \/ \E ip \in IpForms : CallLookup(ip)
  \/ \E id \in DOMAIN lk : GetL1Reply(id)
  \/ \E id \in DOMAIN lk : PgSelectExec(id)
  \/ \E id \in DOMAIN lk : GetL2Reply(id)
  \/ \E id \in DOMAIN lk : GetBackfillReply(id)
  \/ \E id \in DOMAIN lk : UpstreamReply(id, MissOutcomes)
  \/ \E id \in DOMAIN lk : UpstreamTimeout(id)
  \/ \E p \in puts : PgUpsertExec(p)
  \/ Tick(MissTimes)

SpecMiss == InitCache /\ [][NextMiss]_vars

-----------------------------------------------------------------------------
(* Repeated calls of cache on one address, written in two ways, and a      *)
(* getCached after them, memcache enabled                                   *)

MaxSeqPuts == 2
MaxSeqGets == 1
SeqTimes == {1000}

NextPuts ==
  \/ \E ip \in IpForms : \E v \in PutValues : CallPut(ip, v, MaxSeqPuts)
  \/ \E ip \in IpForms : CallGet(ip, MaxSeqGets)
  \/ \E id \in DOMAIN lk : GetL1Reply(id)
  \/ \E id \in DOMAIN lk : PgSelectExec(id)
  \/ \E id \in DOMAIN lk : GetL2Reply(id)
  \/ \E id \in DOMAIN lk : GetBackfillReply(id)
  \/ \E p \in puts : PgUpsertExec(p)
  \/ \E p \in puts : PutReply(p)
  \/ Tick(SeqTimes)

SpecPuts == InitCache /\ [][NextPuts]_vars

-----------------------------------------------------------------------------
(* The cache with a memcached whose commands can fail, calls made one      *)
(* after the other on one key                                               *)

MaxL1Gets == 2
MaxL1Puts == 2
L1Times == {1000, 300000}

\* no call of getCached or cache is in flight
Idle ==
  /\ \A id \in DOMAIN lk : lk[id].pc = "done"
  /\ \A p \in puts : p.pc = "done"

SeqGet == Idle /\ CallGet(Ip1, MaxL1Gets)
SeqPut(v) == Idle /\ CallPut(Ip1, v, MaxL1Puts)

\* db.cache(...) when the set does not reach memcached: MemcacheClient.set
\* catches the error and resolves false, the upsert is issued all the same
SeqPutSetFails(v) ==
  /\ Idle
  /\ Cardinality(puts) < MaxL1Puts
  /\ nreq' = nreq + 1
  /\ puts' = puts \cup
       {[d |-> CacheData(Ip1, HostA, v.listed, v.response, v.error, v.ttl,
                         NowSec(clock)),
         pc |-> "issued", owner |-> <<nreq + 1, 0>>, awaited |-> TRUE,
         doneAt |-> 0]}
  /\ UNCHANGED <<srv, custom, clock, l1Enabled, l1, l2, lk, req, resp, agg, fwd>>

\* a getCached that gives up when the get of memcache fails
GetL1FailGivesUp(id) ==
  /\ lk[id].pc = "l1get"
  /\ GetReturn(id, [lk[id] EXCEPT !.mc = None], None)
  /\ UNCHANGED <<srv, custom, clock, l1Enabled, l1, l2, puts, fwd, nreq>>

\* the get of MemcacheClient.get fails: the error is caught, get resolves
\* null and getCached goes on to PostgreSQL
GetL1Fails(id) ==
  /\ lk[id].pc = "l1get"
  /\ lk' = [lk EXCEPT ![id].pc = "l2sel", ![id].mc = None]
  /\ UNCHANGED <<srv, custom, clock, l1Enabled, l1, l2, puts, req, resp, agg, fwd, nreq>>

\* the rows reach getCached and the set of the backfill fails:
\* MemcacheClient.set resolves false and getCached returns the row
GetL2ReplySetFails(id) ==
  LET t == lk[id]
  IN /\ t.pc = "l2rep"
     /\ t.rows # None
     /\ l1Enabled /\ t.rows[1].expiresAt - t.now > 0
     /\ lk' = [lk EXCEPT ![id] =
                 [t EXCEPT !.pc = "bf", !.checkedAt = t.now,
                           !.cached = Some(FromRow(t.rows[1]))]]
     /\ UNCHANGED <<srv, custom, clock, l1Enabled, l1, l2, puts, req, resp, agg, fwd, nreq>>

NextL1Fail ==
  \/ SeqGet
  \/ \E v \in PutValues : SeqPut(v)
  \/ \E v \in PutValues : SeqPutSetFails(v)
  \/ \E id \in DOMAIN lk : GetL1Reply(id)
  \/ \E id \in DOMAIN lk : GetL1Fails(id)
  \/ \E id \in DOMAIN lk : GetL1DelReply(id)
  \/ \E id \in DOMAIN lk : PgSelectExec(id)
  \/ \E id \in DOMAIN lk : GetL2Reply(id)
  \/ \E id \in DOMAIN lk : GetL2ReplySetFails(id)
  \/ \E id \in DOMAIN lk : GetBackfillReply(id)
  \/ \E p \in puts : PgUpsertExec(p)
  \/ \E p \in puts : PutReply(p)
  \/ Tick(L1Times)

SpecL1Fail == InitCache /\ [][NextL1Fail]_vars

-----------------------------------------------------------------------------
(* The DNS server answering single-RBL queries for one name while the      *)
(* statements sent to PostgreSQL can fail                                   *)

FailQueries == { <<Ip1Rev \o HostA, "A">> }

\* a getCached that lets the error of its query through: lookupSingleRbl-
\* WithCache rejects and the catch of handleQuery answers SERVFAIL
SelectErrorThrown(id, t) ==
  /\ lk' = [lk EXCEPT ![id] = [t EXCEPT !.pc = "done", !.l2failed = TRUE]]
  /\ resp' = Send([Owned(resp) EXCEPT !.rcode = "SERVFAIL"])
  /\ req' = [req EXCEPT !.pc = "sent"]
  /\ agg' = agg

\* getCached: the catch around the SELECT logs the error and returns null
SelectError(id, t) ==
  GetReturn(id, [t EXCEPT !.l2failed = TRUE], None)

\* the SELECT of getCached is rejected
PgSelectFails(id) ==
  /\ lk[id].pc = "l2sel"
  /\ SelectError(id, lk[id])
  /\ UNCHANGED <<srv, custom, clock, l1Enabled, l1, l2, puts, fwd, nreq>>

\* the upsert of cache is rejected: the catch of cache logs the error; the
\* call is kept as the record of the failed write
PgUpsertFails(p) ==
  /\ p.pc = "issued"
  /\ puts' = (puts \ {p}) \cup {[p EXCEPT !.pc = "failed"]}
  /\ UNCHANGED <<srv, custom, clock, l1Enabled, l1, l2, lk, req, resp, agg, fwd, nreq>>

NextL2Fail ==
  \/ \E q \in FailQueries : ArriveSingle(q)
  \/ \E id \in DOMAIN lk : GetL1Reply(id)
  \/ \E id \in DOMAIN lk : GetL1DelReply(id)
  \/ \E id \in DOMAIN lk : PgSelectExec(id)
  \/ \E id \in DOMAIN lk : PgSelectFails(id)
  \/ \E id \in DOMAIN lk : GetL2Reply(id)
  \/ \E id \in DOMAIN lk : GetBackfillReply(id)
  \/ \E id \in DOMAIN lk : UpstreamReply(id, MissOutcomes)
  \/ \E id \in DOMAIN lk : UpstreamTimeout(id)
  \/ \E p \in puts : PgUpsertExec(p)
  \/ \E p \in puts : PgUpsertFails(p)
  \/ Tick(Times)

SpecL2Fail == Init /\ [][NextL2Fail]_vars

-----------------------------------------------------------------------------
(* The cache without a working memcache, calls made one after the other on *)
(* one key: memcache is disabled (l1Enabled is FALSE, every operation of   *)
(* MemcacheClient returns at once), or it is enabled and every command     *)
(* sent to it fails                                                         *)

MaxL2Calls == 4
L2Times == {1000, 400000}

\* the next call is made once the one before it has returned
L2Call(A) == Idle /\ nreq < MaxL2Calls /\ A

\* db.clearAll(), db.clearIp(ip) or db.cleanExpired() is called while no
\* command reaches memcached: the flush, when memcache is enabled, fails
\* and resolves false; the others issue their DELETE in the first turn
CallDelete(kind, ip) ==
  /\ nreq' = nreq + 1
  /\ lk' = (<<nreq + 1, 0>> :> StartClear(kind, ip)) @@ lk
  /\ UNCHANGED <<srv, custom, clock, l1Enabled, l1, l2, puts, req, resp, agg, fwd>>

NextL2Only ==
  \/ L2Call(CallGet(Ip1, MaxL2Calls))
  \/ \E v \in PutValues : ~l1Enabled /\ L2Call(CallPut(Ip1, v, MaxL1Puts))
  \/ \E v \in PutValues : l1Enabled /\ L2Call(SeqPutSetFails(v))
  \/ L2Call(CallDelete("clearAll", NoIp))
  \/ L2Call(CallDelete("clearIp", Ip1))
  \/ L2Call(CallDelete("cleanExpired", NoIp))
  \/ \E id \in DOMAIN lk : GetL1Fails(id)
  \/ \E id \in DOMAIN lk : PgSelectExec(id)
  \/ \E id \in DOMAIN lk :
       (~l1Enabled \/ lk[id].rows = None) /\ GetL2Reply(id)
  \/ \E id \in DOMAIN lk : GetL2ReplySetFails(id)
  \/ \E id \in DOMAIN lk : GetBackfillReply(id)
  \/ \E p \in puts : PgUpsertExec(p)
  \/ \E p \in puts : PutReply(p)
  \/ \E id \in DOMAIN lk : ClearFlushReply(id)
  \/ \E id \in DOMAIN lk : PgDeleteExec(id)
  \/ \E id \in DOMAIN lk : ClearReply(id)
  \/ Tick(L2Times)

SpecL2Only == Init /\ [][NextL2Only]_vars

-----------------------------------------------------------------------------
(* The cache across a restart: memcached keeps its items in memory only,   *)
(* PostgreSQL keeps the table; getDatabase() builds a new CacheDatabase    *)
(* over both.  Writes and a clearIp come before, reads after.               *)

Restarted == \E id \in DOMAIN lk : lk[id].kind = "restart"
RestartId == CHOOSE id \in DOMAIN lk : lk[id].kind = "restart"

\* a restart that finds memcached as it was left
RestartWarm ==
  /\ Idle
  /\ ~Restarted
  /\ nreq' = nreq + 1
  /\ lk' = (<<nreq + 1, 0>> :>
              [StartClear("restart", NoIp) EXCEPT
                 !.pc = "done", !.doneAt = nreq + 1]) @@ lk
  /\ UNCHANGED <<srv, custom, clock, l1Enabled, l1, l2, puts, req, resp, agg, fwd>>

\* the server and its memcached are restarted while no call is in flight:
\* memcached comes back empty, the table is as it was; the restart is kept
\* among the calls as the record of when it happened
Restart ==
  /\ Idle
  /\ ~Restarted
  /\ nreq' = nreq + 1
  /\ l1' = <<>>
  /\ lk' = (<<nreq + 1, 0>> :>
              [StartClear("restart", NoIp) EXCEPT
                 !.pc = "done", !.doneAt = nreq + 1]) @@ lk
  /\ UNCHANGED <<srv, custom, clock, l1Enabled, l2, puts, req, resp, agg, fwd>>

NextRestart ==
  \/ \E v \in PutValues : SeqPut(v)
  \/ ~Restarted /\ Idle /\ CallClearIp(Ip1)
  \/ Restart
  \/ Restarted /\ CallGet(Ip1, MaxL1Gets)
  \/ \E id \in DOMAIN lk : GetL1Reply(id)
  \/ \E id \in DOMAIN lk : GetL1DelReply(id)
  \/ \E id \in DOMAIN lk : PgSelectExec(id)
  \/ \E id \in DOMAIN lk : GetL2Reply(id)
  \/ \E id \in DOMAIN lk : GetBackfillReply(id)
  \/ \E p \in puts : PgUpsertExec(p)
  \/ \E p \in puts : PutReply(p)
  \/ \E id \in DOMAIN lk : PgDeleteExec(id)
  \/ \E id \in DOMAIN lk : ClearReply(id)
  \/ Tick(L2Times)

SpecRestart == InitCache /\ [][NextRestart]_vars

-----------------------------------------------------------------------------
(* The answer of performMultiRblLookup as a function of completedResults,  *)
(* for a zone of up to MaxTxtResults servers                                *)

MaxTxtResults == 7

TxtServer(i) == [name |-> <<"rbl", i>>, host |-> <<"rbl", i>>]

\* what the i-th child can have pushed: a listing, no listing, an error
TxtResultsOf(i) ==
  { Classify(TxtServer(i), o, 10) :
      o \in { [kind |-> "answer",
               records |-> <<[address |-> "127.0.0.4", ttl |-> 60]>>,
               code |-> NULL],
              [kind |-> "error", records |-> <<>>, code |-> "ENOTFOUND"],
              [kind |-> "error", records |-> <<>>, code |-> "ESERVFAIL"] } }

\* the lists completedResults can be when the race has settled
RECURSIVE TxtLists(_)
TxtLists(n) ==
  IF n = 0 THEN {<<>>}
  ELSE {Append(rs, r) : rs \in TxtLists(n - 1), r \in TxtResultsOf(n)}

TxtInputs == UNION {TxtLists(n) : n \in 0..MaxTxtResults}

InitTxt ==
  /\ clock = 0
  /\ l1Enabled = FALSE
  /\ l1 = <<>>
  /\ l2 = <<>>
  /\ lk = <<>>
  /\ puts = {}
  /\ \E ty \in {"A", "TXT"} :
       req = [NoReq EXCEPT !.n = 1, !.pc = "agg", !.path = "agg",
                           !.qname = Ip1Rev \o <<"multi", "com">>,
                           !.qtype = ty, !.ip = Ip1]
  /\ resp = NewResponse
  /\ \E rs \in TxtInputs :
       agg = [NoAgg EXCEPT !.n = 1, !.zone = 1, !.total = MaxTxtResults,
                           !.completedResults = rs,
                           !.settledCount = Len(rs), !.timer = "armed"]
  /\ fwd = NoFwd
  /\ nreq = 1
  /\ custom = <<>>
  /\ srv = Started

\* performMultiRblLookup from the settling of the race on, and the send of
\* handleQuery
BuildAnswer ==
  /\ req.pc = "agg"
  /\ resp' = SendIn(1, AggResponse(resp, req.qname, req.qtype,
                               agg.completedResults, agg.total, 0))
  /\ req' = [req EXCEPT !.pc = "sent"]
  /\ agg' = [agg EXCEPT !.raced = TRUE]
  /\ UNCHANGED <<srv, custom, clock, l1Enabled, l1, l2, lk, puts, fwd, nreq>>

NextTxt == BuildAnswer

SpecTxt == InitTxt /\ [][NextTxt]_vars

-----------------------------------------------------------------------------
(* An aggregate request and, after it, a single-RBL request for the same   *)
(* address at one of the RBLs of the zone; memcache disabled                *)

LateQueries == { <<Ip1Rev \o HostA, "A">> }

LateAggQueries == { <<Ip1Rev \o <<"two", "net">>, "TXT">> }

\* the resolver answers with a listing, or not before the 5 s timer
LateOutcomes ==
  { [kind |-> "answer", records |-> <<[address |-> "127.0.0.2", ttl |-> 900]>>,
     code |-> NULL] }

NextLate ==
  \/ \E q \in LateAggQueries : ArriveAggregate(q)
  \/ \E q \in LateQueries : ArriveSingle(q)
  \/ \E id \in DOMAIN lk : PgSelectExec(id)
  \/ \E id \in DOMAIN lk : GetL2Reply(id)
  \/ \E id \in DOMAIN lk : UpstreamReply(id, LateOutcomes)
  \/ \E id \in DOMAIN lk : UpstreamTimeout(id)
  \/ \E p \in puts : PgUpsertExec(p)
  \/ AggTimerFire
  \/ Tick(AggTimes)

SpecLate == InitAgg /\ [][NextLate]_vars

\* timers fire, time passes and PostgreSQL runs the statements it is sent;
\* nothing makes the resolver answer
FairSpecLate ==
  /\ SpecLate
  /\ WF_vars(AggTimerFire)
  /\ WF_vars(\E id \in DOMAIN lk : UpstreamTimeout(id))
  /\ WF_vars(Tick(AggTimes))
  /\ WF_vars(\E id \in DOMAIN lk : PgSelectExec(id))
  /\ WF_vars(\E id \in DOMAIN lk : GetL2Reply(id))
  /\ WF_vars(\E p \in puts : PgUpsertExec(p))

-----------------------------------------------------------------------------
(* The custom RBL: the table custom_rbl_entries, the functions that write  *)
(* it, checkCustomRbl, and the queries of handleQuery under its zone.  A   *)
(* network is the sequence of its whole leading octets.                    *)

MaxEntries == 3
ReasonTtl == 3600

\* custom_rbl_config: the zone, enabled
CustomZone == <<"custom", "bl">>
\* init: the entry added to this.rblServers, after those of the list
CustomServer == [name |-> "Custom RBL", host |-> CustomZone]

CustomNetworks == { <<"127">>, <<"127", "0", "0">>, <<"10">> }
CustomReasons == { NULL, "spam" }

CustomQueries ==
  { <<Ip1Rev \o CustomZone, "A">>, <<Ip1Rev \o CustomZone, "TXT">> }

\* masklen(network)
Masklen(network) == 8 * Len(network)

\* network >>= $1::inet
Contains(network, ip) ==
  /\ Len(network) <= Len(ip)
  /\ SubSeq(Inet(ip), 1, Len(network)) = network

\* handleQuery with the custom RBL configured: the zone of the custom RBL
\* is the last key of this.rblServers
RouteCustom(queryName, queryType) ==
  LET r == Route(queryName, queryType)
      ip == parseReverseIp(queryName, CustomZone)
  IN IF /\ r.path = "forward"
        /\ queryType = "A"
        /\ FirstRbl(queryName, 1) = 0
        /\ EndsWithZone(queryName, CustomZone)
        /\ ip # NoIp
     THEN [path |-> "custom", zone |-> 0, rbl |-> 0, ip |-> ip]
     ELSE r

\* the rows WHERE listed = true AND network >>= ip
Matching(table, ip) ==
  {id \in DOMAIN table : table[id].listed /\ Contains(table[id].network, ip)}

\* ORDER BY masklen(network) DESC LIMIT 1: a row no other matching row
\* precedes; which of several rows of one masklen comes first is not said
FirstRows(table, ip) ==
  {id \in Matching(table, ip) :
     \A o \in Matching(table, ip) :
       Masklen(table[o].network) <= Masklen(table[id].network)}

\* checkCustomRbl: the object built from the rows of the SELECT
CustomResult(rows) ==
  IF rows = None
  THEN [listed |-> "false", response |-> NULL, reason |-> NULL,
        network |-> <<>>, entryId |-> 0, error |-> NULL, ttl |-> 0]
  ELSE [listed |-> "true", response |-> "127.0.0.2",
        reason |-> IF Truthy(rows[1].reason) THEN rows[1].reason
                   ELSE "Listed in custom blocklist",
        network |-> rows[1].network, entryId |-> rows[1].id,
        error |-> NULL, ttl |-> 0]

ReasonTxt(reason) == [NoTxt EXCEPT !.kind = "reason", !.name = reason]

\* handleQuery: the answer to a query under the zone of the custom RBL
CustomResponse(r, queryName, result) ==
  LET s == SingleResponse(r, queryName, result)
  IN IF Truthy(result.listed) /\ Truthy(result.reason)
     THEN [s EXCEPT !.answer =
             Append(@, TxtRecord(queryName, ReasonTxt(result.reason),
                                 ReasonTtl))]
     ELSE s

\* addCustomRblEntry: INSERT with listed = true; id is the next of SERIAL
AddCustomEntry(network, reason) ==
  /\ Cardinality(DOMAIN custom) < MaxEntries
  /\ custom' = (Cardinality(DOMAIN custom) + 1 :>
                  [network |-> network, listed |-> TRUE, reason |-> reason])
                @@ custom
  /\ UNCHANGED <<srv, clock, l1Enabled, l1, l2, lk, puts, req, resp, agg, fwd,
                 nreq>>

\* updateCustomRblEntry(id, {listed: false})
DelistCustomEntry(id) ==
  /\ custom[id].listed
  /\ custom' = [custom EXCEPT ![id].listed = FALSE]
  /\ UNCHANGED <<srv, clock, l1Enabled, l1, l2, lk, puts, req, resp, agg, fwd,
                 nreq>>

\* an A query under the zone of the custom RBL: checkCustomRbl is called
\* and awaits getCustomRblConfig
ArriveCustom(q) ==
  LET route == RouteCustom(q[1], q[2])
      n == nreq + 1
  IN /\ Over
     /\ nreq < MaxReqs
     /\ route.path = "custom"
     /\ nreq' = n
     /\ lk' = (<<n, 0>> :>
                 [StartGet("custom", CustomServer, route.ip, CustomZone)
                    EXCEPT !.pc = "ccfg", !.mc = None]) @@ Running
     /\ req' = [NewReq(q, route) EXCEPT !.pc = "custom"]
     /\ resp' = NewResponse
     /\ UNCHANGED <<srv, clock, l1Enabled, l1, l2, puts, agg, fwd, custom>>

\* the configuration arrives, enabled and of this zone: the SELECT on
\* custom_rbl_entries is sent
CustomConfigReply(id) ==
  /\ lk[id].pc = "ccfg"
  /\ lk' = [lk EXCEPT ![id].pc = "csel"]
  /\ UNCHANGED <<srv, clock, l1Enabled, l1, l2, puts, req, resp, agg, fwd, nreq,
                 custom>>

\* PostgreSQL runs the SELECT of checkCustomRbl
CustomSelectExec(id) ==
  LET t == lk[id]
      first == FirstRows(custom, t.ip)
  IN /\ t.pc = "csel"
     /\ \E rows \in IF first = {} THEN {None}
                     ELSE {Some([id |-> e, network |-> custom[e].network,
                                 reason |-> custom[e].reason]) : e \in first} :
          lk' = [lk EXCEPT ![id].pc = "crep", ![id].rows = rows]
     /\ UNCHANGED <<srv, clock, l1Enabled, l1, l2, puts, req, resp, agg, fwd, nreq,
                    custom>>

\* a custom answer that is also handed to db.cache
CustomReplyCached(id) ==
  LET t == lk[id]
      result == CustomResult(t.rows)
  IN /\ t.pc = "crep"
     /\ lk' = [lk EXCEPT ![id].pc = "done", ![id].result = Some(result)]
     /\ resp' = SendIn(2, CustomResponse(resp, req.qname, result))
     /\ req' = [req EXCEPT !.pc = "sent"]
     /\ CacheCall(CacheData(t.ip, t.rblHost, result.listed, result.response,
                            result.error, TtlDefault, NowSec(clock)),
                  id, FALSE)
     /\ UNCHANGED <<srv, clock, l1Enabled, l2, agg, fwd, nreq, custom>>

\* the rows reach checkCustomRbl; it returns and handleQuery answers
CustomReply(id) ==
  LET t == lk[id]
      result == CustomResult(t.rows)
  IN /\ t.pc = "crep"
     /\ lk' = [lk EXCEPT ![id].pc = "done", ![id].result = Some(result)]
     /\ resp' = SendIn(2, CustomResponse(resp, req.qname, result))
     /\ req' = [req EXCEPT !.pc = "sent"]
     /\ UNCHANGED <<srv, clock, l1Enabled, l1, l2, puts, agg, fwd, nreq, custom>>

NextCustom ==
  \/ \E network \in CustomNetworks, reason \in CustomReasons :
       AddCustomEntry(network, reason)
  \/ \E id \in DOMAIN custom : DelistCustomEntry(id)
  \/ \E q \in CustomQueries : ArriveCustom(q)
  \/ \E q \in CustomQueries :
       RouteCustom(q[1], q[2]).path = "forward" /\ ArriveForward(q)
  \/ \E id \in DOMAIN lk : CustomConfigReply(id)
  \/ \E id \in DOMAIN lk : CustomSelectExec(id)
  \/ \E id \in DOMAIN lk : CustomReply(id)
  \/ \E m \in FwdMessages : FwdMessage(m)
  \/ FwdTimeout
  \/ Tick(AggTimes)

SpecCustom == InitCache /\ [][NextCustom]_vars

-----------------------------------------------------------------------------
(* AAAA queries under the zones the server owns; memcache disabled *)

AaaaQueries ==
  { <<Ip1Rev \o <<"two", "net">>, "AAAA">>,
    <<Ip1Rev \o HostA, "AAAA">>,
    <<Ip1Rev \o CustomZone, "AAAA">> }

NextAaaa ==
  \/ \E q \in AaaaQueries : ArriveAggregate(q)
  \/ \E q \in AaaaQueries :
       RouteCustom(q[1], q[2]).path = "forward" /\ ArriveForward(q)
  \/ \E id \in DOMAIN lk : PgSelectExec(id)
  \/ \E id \in DOMAIN lk : GetL2Reply(id)
  \/ \E id \in DOMAIN lk : UpstreamReply(id, LateOutcomes)
  \/ \E id \in DOMAIN lk : UpstreamTimeout(id)
  \/ \E p \in puts : PgUpsertExec(p)
  \/ AggTimerFire
  \/ \E m \in FwdMessages : FwdMessage(m)
  \/ FwdTimeout
  \/ Tick(AggTimes)

SpecAaaa == InitAgg /\ [][NextAaaa]_vars

-----------------------------------------------------------------------------
(* lookupIpCached called twice for one address, the second call after the  *)
(* first has returned; the custom RBL is not configured                     *)

MaxIpLookups == 2

\* lookupIpCached(ip, db): one lookupSingleRblWithCache for every server,
\* awaited together by Promise.all
CallLookupIp(ip) ==
  LET n == nreq + 1
      children ==
        [id \in {<<n, i>> : i \in 1..Len(RblServersList)} |->
           StartGet("lookup", RblServersList[id[2]], ip,
                    RblServersList[id[2]].host)]
  IN /\ \A id \in DOMAIN lk : lk[id].pc = "done"
     /\ nreq < MaxIpLookups
     /\ nreq' = n
     /\ lk' = children @@ lk
     /\ UNCHANGED <<srv, clock, l1Enabled, l1, l2, puts, req, resp, agg, fwd,
                    custom>>

NextIpTwice ==
  \/ CallLookupIp(Ip1)
  \/ \E id \in DOMAIN lk : GetL1Reply(id)
  \/ \E id \in DOMAIN lk : PgSelectExec(id)
  \/ \E id \in DOMAIN lk : GetL2Reply(id)
  \/ \E id \in DOMAIN lk : UpstreamReply(id, LateOutcomes)
  \/ \E p \in puts : PgUpsertExec(p)

SpecIpTwice == Init /\ [][NextIpTwice]_vars

-----------------------------------------------------------------------------
(* The server from start() to stop() and after: requests while the sockets *)
(* are open, the two interval timers, memcache disabled                    *)

MaxStopTicks == 13
StopTimes == {SweepEvery * k : k \in 1..MaxStopTicks}
StopQueries == {<<Ip1Rev \o HostA, "A">>}
StopOutcomes ==
  { [kind |-> "answer",
     records |-> <<[address |-> "127.0.0.2", ttl |-> 900]>>, code |-> NULL],
    [kind |-> "error", records |-> <<>>, code |-> "ESERVFAIL"] }

\* the tasks the interval timers have started
TimerTasks ==
  {id \in DOMAIN lk : lk[id].kind \in {"cleanExpired", "stats"}}

\* a 'request' event: the socket it arrives on is open
Accept(q) == srv.listening /\ ArriveSingle(q)

\* the five-minute timer fires: the callback calls db.cleanExpired(); no
\* handle of the timer is kept, so nothing but the end of the process
\* stops it
SweepFire ==
  /\ clock >= srv.sweepDue
  /\ nreq' = nreq + 1
  /\ lk' = (<<nreq + 1, 0>> :> StartClear("cleanExpired", NoIp)) @@ lk
  /\ srv' = [srv EXCEPT !.sweepDue = clock + SweepEvery]
  /\ UNCHANGED <<custom, clock, l1Enabled, l1, l2, puts, req, resp, agg, fwd>>

\* the hourly timer fires: the callback calls db.getStats()
StatsFire ==
  /\ clock >= srv.statsDue
  /\ nreq' = nreq + 1
  /\ lk' = (<<nreq + 1, 0>> :>
              [StartClear("stats", NoIp) EXCEPT !.pc = "stat"]) @@ lk
  /\ srv' = [srv EXCEPT !.statsDue = clock + StatsEvery]
  /\ UNCHANGED <<custom, clock, l1Enabled, l1, l2, puts, req, resp, agg, fwd>>

\* SELECT COUNT(*), COUNT(*) FILTER (WHERE expires_at > $1), ...
Stats(table, now) ==
  [total |-> Cardinality(DOMAIN table),
   valid |-> Cardinality({k \in DOMAIN table : table[k].expiresAt > now}),
   expired |-> Cardinality({k \in DOMAIN table : table[k].expiresAt <= now})]

\* PostgreSQL runs the SELECT of getStats
PgStatsExec(id) ==
  /\ lk[id].pc = "stat"
  /\ lk' = [lk EXCEPT ![id].pc = "delrep",
                      ![id].result = Some(Stats(l2, lk[id].now))]
  /\ UNCHANGED <<srv, custom, clock, l1Enabled, l1, l2, puts, req, resp, agg,
                 fwd, nreq>>

\* stop(): both sockets are closed and db.close() closes the memcache
\* client, of which there is none here; the timers are left as they are
Stop ==
  /\ srv.listening
  /\ srv' = [srv EXCEPT !.listening = FALSE, !.stoppedAt = nreq]
  /\ UNCHANGED <<custom, clock, l1Enabled, l1, l2, lk, puts, req, resp, agg,
                 fwd, nreq>>

\* time passes up to the next time a timer is due; what was started has
\* finished by then
StopTick ==
  /\ Idle
  /\ clock < srv.sweepDue
  /\ clock < srv.statsDue
  /\ Tick(StopTimes)
  /\ clock' <= Min(srv.sweepDue, srv.statsDue)

NextStop ==
  \/ \E q \in StopQueries : Accept(q)
  \/ \E id \in DOMAIN lk : PgSelectExec(id)
  \/ \E id \in DOMAIN lk : GetL2Reply(id)
  \/ \E id \in DOMAIN lk : UpstreamReply(id, StopOutcomes)
  \/ \E p \in puts : PgUpsertExec(p)
  \/ SweepFire
  \/ StatsFire
  \/ \E id \in DOMAIN lk : PgDeleteExec(id)
  \/ \E id \in DOMAIN lk : PgStatsExec(id)
  \/ \E id \in DOMAIN lk : ClearReply(id)
  \/ Stop
  \/ StopTick

SpecStop == InitAgg /\ [][NextStop]_vars

-----------------------------------------------------------------------------
(* The two parsers of reversed addresses, applied to the reversed text of  *)
(* an address followed by a zone                                           *)

ParseOctets == {"0", "2", "127"}
ParseIps == [1..4 -> ParseOctets]
ParseZones == <<HostA, <<"multi", "com">>, <<"0", "127">>, <<"127">>>>

\* a query name reverseIp(x) + '.' + zone is about to be parsed, by
\* parseReverseIp (path single) or by parseMultiRblIp (path agg)
InitParse ==
  /\ clock = 0
  /\ l1Enabled = FALSE
  /\ l1 = <<>>
  /\ l2 = <<>>
  /\ lk = <<>>
  /\ puts = {}
  /\ \E x \in ParseIps, z \in DOMAIN ParseZones, p \in {"single", "agg"} :
       req = [NoReq EXCEPT !.n = 1, !.pc = "parse", !.path = p,
                           !.qname = reverseIp(x) \o ParseZones[z],
                           !.qtype = "A", !.rbl = z]
  /\ resp = NewResponse
  /\ agg = NoAgg
  /\ fwd = NoFwd
  /\ nreq = 1
  /\ custom = <<>>
  /\ srv = Started

\* this.parseReverseIp(queryName, rblHost)
ParseSingle ==
  /\ req.pc = "parse"
  /\ req.path = "single"
  /\ req' = [req EXCEPT !.pc = "parsed",
                        !.ip = parseReverseIp(req.qname, ParseZones[req.rbl])]
  /\ UNCHANGED <<srv, custom, clock, l1Enabled, l1, l2, lk, puts, resp, agg,
                 fwd, nreq>>

\* this.parseMultiRblIp(queryName, zone.domain)
ParseMulti ==
  /\ req.pc = "parse"
  /\ req.path = "agg"
  /\ req' = [req EXCEPT !.pc = "parsed",
                        !.ip = parseMultiRblIp(req.qname, ParseZones[req.rbl])]
  /\ UNCHANGED <<srv, custom, clock, l1Enabled, l1, l2, lk, puts, resp, agg,
                 fwd, nreq>>

NextParse == ParseSingle \/ ParseMulti

SpecParse == InitParse /\ [][NextParse]_vars

-----------------------------------------------------------------------------
(* The DNS server when response.send() can throw: one query of each kind,  *)
(* memcache disabled                                                       *)

MaxThrows == 2
SendQueries == {<<Ip1Rev \o HostA, "A">>}
SendAggQueries == {<<Ip1Rev \o <<"two", "net">>, "TXT">>}
SendFwdQueries == {<<<<"www", "example", "com">>, "A">>}

InitSend ==
  /\ clock = 0
  /\ l1Enabled = FALSE
  /\ l1 = <<>>
  /\ l2 = <<>>
  /\ lk = <<>>
  /\ puts = {}
  /\ req = NoReq
  /\ resp = NewResponse
  /\ agg = NoAgg
  /\ fwd = NoFwd
  /\ nreq = 0
  /\ custom = <<>>
  /\ \E n \in 0..MaxThrows : srv = [Started EXCEPT !.sendThrows = n]

NextSend ==
  \/ \E q \in SendAggQueries : ArriveAggregate(q)
  \/ \E q \in SendQueries : ArriveSingle(q)
  \/ \E q \in SendFwdQueries : ArriveForward(q)
  \/ \E id \in DOMAIN lk : PgSelectExec(id)
  \/ \E id \in DOMAIN lk : GetL2Reply(id)
  \/ \E id \in DOMAIN lk : UpstreamReply(id, LateOutcomes)
  \/ \E p \in puts : PgUpsertExec(p)
  \/ \E m \in FwdMessages : FwdMessage(m)
  \/ AggTimerFire
  \/ Tick(AggTimes)

SpecSend == InitSend /\ [][NextSend]_vars

-----------------------------------------------------------------------------
(* The custom RBL when its configuration or its table cannot be read, or   *)
(* the configuration has changed since the server started                  *)

ConfigErrors == {"Custom RBL not configured or disabled", "Invalid zone name"}
SelectErrors == {"connection terminated"}

\* an answer of checkCustomRbl that says nothing of the table
CustomErrorSilent(message) ==
  [listed |-> "false", response |-> NULL, reason |-> NULL,
   network |-> <<>>, entryId |-> 0, error |-> NULL, ttl |-> 0]

\* checkCustomRbl: the three returns with an error
CustomError(message) ==
  [listed |-> "false", response |-> NULL, reason |-> NULL,
   network |-> <<>>, entryId |-> 0, error |-> message, ttl |-> 0]

\* checkCustomRbl returns an error at the place pc; handleQuery answers
CustomFails(id, pc, message) ==
  LET result == CustomError(message)
  IN /\ lk[id].pc = pc
     /\ lk' = [lk EXCEPT ![id].pc = "done", ![id].result = Some(result),
                         ![id].l2failed = TRUE]
     /\ resp' = SendIn(2, CustomResponse(resp, req.qname, result))
     /\ req' = [req EXCEPT !.pc = "sent"]
     /\ UNCHANGED <<srv, clock, l1Enabled, l1, l2, puts, agg, fwd, nreq,
                    custom>>

\* getCustomRblConfig returns null (no enabled row, or its SELECT failed),
\* or a configuration whose zone_name is not the zone the server loaded
CustomConfigFails(id, message) == CustomFails(id, "ccfg", message)

\* the SELECT on custom_rbl_entries fails: the catch of checkCustomRbl
CustomSelectFails(id, message) == CustomFails(id, "csel", message)

NextCustomFail ==
  \/ \E network \in CustomNetworks, reason \in CustomReasons :
       AddCustomEntry(network, reason)
  \/ \E id \in DOMAIN custom : DelistCustomEntry(id)
  \/ \E q \in CustomQueries : ArriveCustom(q)
  \/ \E id \in DOMAIN lk : CustomConfigReply(id)
  \/ \E id \in DOMAIN lk, m \in ConfigErrors : CustomConfigFails(id, m)
  \/ \E id \in DOMAIN lk : CustomSelectExec(id)
  \/ \E id \in DOMAIN lk, m \in SelectErrors : CustomSelectFails(id, m)
  \/ \E id \in DOMAIN lk : CustomReply(id)

SpecCustomFail == InitCache /\ [][NextCustomFail]_vars

-----------------------------------------------------------------------------
(* C1: the wait of the aggregate executor *)

AggWaiting == req.path = "agg" /\ req.pc = "agg"
AggAnswered == req.path = "agg" /\ req.pc = "sent"

\* while the executor waits, some child is unsettled and the deadline has
\* not passed; once it has answered, it did so exactly once, no later than
\* MultiRblTimeout after it started, on the timer with a child unsettled or
\* on the settling of all its children
C1_WaitEnds ==
  /\ AggWaiting =>
       /\ agg.settledCount < agg.total
       /\ agg.timer = "armed"
       /\ clock <= agg.startTime + MultiRblTimeout
       /\ resp.sent = 0
  /\ AggAnswered =>
       /\ resp.sent = 1
       /\ agg.elapsed <= MultiRblTimeout
       /\ IF agg.timedOut
          THEN /\ agg.elapsed = MultiRblTimeout
               /\ Cardinality(agg.atWake) < agg.total
          ELSE Cardinality(agg.atWake) = agg.total

\* C1: the aggregate executor stops waiting at the first of (every child
\* settled, the timer of MultiRblTimeout ms), the response is emitted then,
\* and every aggregate request is answered in the end, whether or not its
\* children complete
C1_AggregateAnswered == []C1_WaitEnds /\ (AggWaiting ~> AggAnswered)

\* an aggregate request answered by the timer while no child had settled
C1_Witness ==
  /\ AggAnswered
  /\ agg.timedOut
  /\ agg.atWake = {}
  /\ agg.elapsed = MultiRblTimeout
  /\ resp.sent = 1

-----------------------------------------------------------------------------
(* C2: what the aggregate response is computed from *)

\* the servers of the list that the zone of the request selects
SelectedServers ==
  LET zone == MultiRblZones[agg.zone]
  IN {i \in 1..Len(RblServersList) :
        zone.all \/ RblServersList[i].host \in zone.rbls}

\* the children that had completed when the wait ended, and the listed ones
ListedAtWake ==
  {i \in agg.atWake : lk[<<agg.n, i>>].result[1].listed = "true"}

\* the places of the answer section that hold a TXT text of the given kind
TxtPlaces(kind) ==
  {j \in 1..Len(resp.answer) :
     resp.answer[j].type = "TXT" /\ resp.answer[j].txt.kind = kind}

\* C2: the aggregate response is computed from the children that had
\* completed when the wait ended and from them alone: listedCount and
\* completedCount count those children, the listings name them, a child that
\* completes later changes nothing, and totalCount is the number of servers
\* the zone selects
C2_AggregateFromCompleted ==
  AggAnswered =>
    /\ (resp.rcode = "NXDOMAIN") <=> (ListedAtWake = {})
    /\ (resp.answer = <<>>) <=> (ListedAtWake = {})
    /\ (ListedAtWake # {} /\ req.qtype = "TXT") => TxtPlaces("summary") = {1}
    /\ (ListedAtWake # {} /\ req.qtype # "TXT") =>
         /\ Len(resp.answer) = 1
         /\ resp.answer[1].type = "A"
    /\ \A j \in TxtPlaces("summary") :
         /\ resp.answer[j].txt.a = Cardinality(ListedAtWake)
         /\ resp.answer[j].txt.b = Cardinality(agg.atWake)
         /\ resp.answer[j].txt.c = Cardinality(SelectedServers)
    /\ req.qtype = "TXT" =>
         {resp.answer[j].txt.name : j \in TxtPlaces("listed")}
           = {RblServersList[i].name : i \in ListedAtWake}

\* a TXT answer sent on the timer with one listed child, after which the
\* other child completed, listed as well
C2_Witness ==
  /\ AggAnswered
  /\ agg.timedOut
  /\ req.qtype = "TXT"
  /\ Cardinality(agg.atWake) = 1
  /\ Cardinality(ListedAtWake) = 1
  /\ Len(agg.completedResults) = 2
  /\ agg.completedResults[2].listed = "true"
  /\ \E j \in TxtPlaces("summary") :
       /\ resp.answer[j].txt.a = 1
       /\ resp.answer[j].txt.b = 1
       /\ resp.answer[j].txt.c = 2

-----------------------------------------------------------------------------
(* C3, C4: what getCached returns *)

\* the calls of getCached that have returned an entry
Returned ==
  {id \in DOMAIN lk : lk[id].pc = "done" /\ lk[id].cached # None}

\* C3: an entry getCached returns has expiresAt > now, where now is the
\* second read by the check that let the entry through (the call's own now
\* for the table, the second of the reply for memcache), which is never
\* earlier than the second the call started at
C3_NeverExpired ==
  \A id \in Returned :
    /\ lk[id].cached[1].expiresAt > lk[id].checkedAt
    /\ lk[id].checkedAt >= lk[id].now

\* one call was served from the table and backfilled memcache; another was
\* served that backfilled entry from memcache
C3_Witness ==
  /\ generateKey(Ip1, HostA) \in DOMAIN l1
  /\ l1[generateKey(Ip1, HostA)].value.cacheSource = "postgres"
  /\ \E id1 \in Returned : lk[id1].cached[1].cacheSource = "postgres"
  /\ \E id2 \in Returned :
       /\ lk[id2].cached[1].cacheSource = "memcache"
       /\ lk[id2].cached[1].cachedAt
            = l1[generateKey(Ip1, HostA)].value.cachedAt

\* equality of a cached entry and the value put, fromCache left aside
SameValue(c, d) ==
  /\ c.listed = d.listed
  /\ c.response = d.response
  /\ c.error = d.error
  /\ c.ttl = d.ttl

\* the put p had completed when the get id was issued, every other put had
\* completed before p was issued, and the get started less than ttl seconds
\* after p
PutStands(p, id) ==
  /\ p.pc = "done"
  /\ p.doneAt < id[1]
  /\ \A q \in puts \ {p} : q.pc = "done" /\ q.doneAt < p.owner[1]
  /\ lk[id].now < p.d.cachedAt + p.d.ttl

\* C4: once put(k, v, ttl) has completed, a get(k) issued within ttl
\* seconds returns a value equal to v, when no later put on k intervened
C4_GetAfterPut ==
  \A id \in DOMAIN lk : \A p \in puts :
    (lk[id].kind = "get" /\ lk[id].pc = "done" /\ PutStands(p, id)) =>
      /\ lk[id].cached # None
      /\ SameValue(lk[id].cached[1], p.d)

\* a get issued after the last put had completed has returned
C4_Witness ==
  \E id \in DOMAIN lk : \E p \in puts :
    /\ lk[id].kind = "get" /\ lk[id].pc = "done" /\ PutStands(p, id)
    /\ Cardinality(puts) = 2

-----------------------------------------------------------------------------
(* C5 .. C8: one single-RBL request *)

\* the call of lookupSingleRblWithCache made for the request at hand
CurId == <<req.n, 0>>
SingleActive == req.path = "single" /\ req.pc \in {"lookup", "sent"}

\* the calls of cache() made for the request whose upsert has not run yet
OwnPuts == {p \in puts : p.owner = CurId}

\* the request at hand was answered from the cache / after a lookup upstream
AnsweredFromCache ==
  /\ SingleActive
  /\ lk[CurId].pc = "done"
  /\ lk[CurId].cached # None
AnsweredFromUpstream ==
  /\ SingleActive
  /\ lk[CurId].pc = "done"
  /\ lk[CurId].cached = None

\* where the request is, step by step: nothing of a later step has happened
\* while an earlier one is under way
C5_StepsInOrder ==
  SingleActive =>
    LET t == lk[CurId]
    IN /\ t.pc \in {"l1get", "l1del", "l2sel", "l2rep", "bf"} =>
            /\ t.upstream = 0
            /\ t.result = None
            /\ OwnPuts = {}
            /\ resp.sent = 0
       /\ t.pc = "up" =>
            /\ t.cached = None
            /\ t.upstream = 1
            /\ t.result = None
            /\ OwnPuts = {}
            /\ resp.sent = 0
       /\ t.pc = "done" =>
            /\ resp.sent = 1
            /\ t.upstream = IF t.result[1].fromCache THEN 0 ELSE 1
            /\ t.result[1].fromCache => OwnPuts = {}

\* the step that emits the response of a lookup that went upstream is the
\* step in which cache() is called: the write is issued, not awaited
C5_WriteIssuedAtSend ==
  (SingleActive /\ resp.sent = 0 /\ resp'.sent = 1
     /\ ~lk'[CurId].result[1].fromCache)
  => \E p \in puts' \ puts : p.owner = CurId /\ p.pc = "issued"

IsListedClass(r) ==
  r.listed = "true" /\ r.response # NULL /\ r.error = NULL
IsNotListedClass(r) ==
  r.listed = "false" /\ r.response = NULL /\ r.error = NULL
IsErrorClass(r) ==
  r.listed = NULL /\ r.response = NULL /\ r.error # NULL

\* C6: a lookup that went upstream is classified as exactly one of Listed
\* (an answer; response is its first A record), NotListed with ttl 3600
\* (ENOTFOUND, ENODATA) and Error with ttl 300 (any other failure, the 5 s
\* timeout included), and the DNS answer is NOERROR with the A record,
\* NXDOMAIN, or SERVFAIL accordingly
C6_Classified ==
  AnsweredFromUpstream =>
    LET t == lk[CurId]
        o == t.outcome[1]
        r == t.result[1]
    IN /\ Cardinality({c \in {"L", "N", "E"} :
                         \/ c = "L" /\ IsListedClass(r)
                         \/ c = "N" /\ IsNotListedClass(r)
                         \/ c = "E" /\ IsErrorClass(r)}) = 1
       /\ IsListedClass(r) <=> o.kind = "answer"
       /\ IsNotListedClass(r) <=>
            (o.kind = "error" /\ o.code \in {"ENOTFOUND", "ENODATA"})
       /\ IsListedClass(r) =>
            /\ r.response = o.records[1].address
            /\ resp.rcode = "NOERROR"
            /\ resp.answer = <<ARecord(req.qname, r.response, r.ttl)>>
       /\ IsNotListedClass(r) =>
            /\ r.ttl = TtlNotListed
            /\ resp.rcode = "NXDOMAIN"
            /\ resp.answer = <<>>
       /\ IsErrorClass(r) =>
            /\ r.ttl = TtlError
            /\ resp.rcode = "SERVFAIL"
            /\ resp.answer = <<>>
       /\ (o = TimeoutOutcome) => IsErrorClass(r)

\* the 5 s timer settled the lookup: Error, SERVFAIL
C6_Witness ==
  /\ AnsweredFromUpstream
  /\ lk[CurId].outcome[1] = TimeoutOutcome
  /\ lk[CurId].result[1].responseTime = LookupTimeout
  /\ resp.rcode = "SERVFAIL"
  /\ resp.sent = 1

\* every copy of a cache entry: the rows of the table, the items of
\* memcache, and the writes on their way
CacheEntries ==
  {l2[k] : k \in DOMAIN l2} \cup {l1[k].value : k \in DOMAIN l1}
    \cup {p.d : p \in puts}

\* an entry that records an error lives 300 s and is not listed
C7_ErrorEntries ==
  \A e \in CacheEntries :
    e.error # NULL =>
      /\ e.ttl = TtlError
      /\ e.expiresAt = e.cachedAt + TtlError
      /\ e.listed = "false"

\* the answer to a request whose lookup ended in an error, fresh or cached
C7_ErrorAnswer ==
  /\ (AnsweredFromUpstream /\ IsErrorClass(lk[CurId].result[1])) =>
       /\ resp.rcode = "SERVFAIL"
       /\ resp.answer = <<>>
       /\ resp.sent = 1
  /\ (AnsweredFromCache /\ lk[CurId].cached[1].error # NULL) =>
       /\ lk[CurId].result[1].error = lk[CurId].cached[1].error
       /\ resp.rcode = "SERVFAIL"
       /\ resp.answer = <<>>
       /\ resp.sent = 1

\* the step that answers a lookup that ended in an error hands the error to
\* cache() with a ttl of 300 s
C7_ErrorCached ==
  (SingleActive /\ resp.sent = 0 /\ resp'.sent = 1
     /\ ~lk'[CurId].result[1].fromCache
     /\ IsErrorClass(lk'[CurId].result[1]))
  => \E p \in puts' \ puts :
       /\ p.owner = CurId
       /\ p.d.error = lk'[CurId].result[1].error
       /\ p.d.ttl = TtlError
       /\ p.d.expiresAt = NowSec(clock) + TtlError

\* C7: a single-RBL lookup that ends in an error is cached as an Error
\* entry with a ttl of 300 s and answered SERVFAIL, and a later request
\* served from that entry is answered SERVFAIL as well, never NXDOMAIN
C7_ErrorServfail ==
  [](C7_ErrorEntries /\ C7_ErrorAnswer) /\ [][C7_ErrorCached]_vars

\* the second request is served from the Error entry the first one cached
C7_Witness ==
  /\ req.n = 2
  /\ AnsweredFromCache
  /\ lk[CurId].cached[1].error = "ESERVFAIL"
  /\ lk[CurId].cached[1].ttl = TtlError
  /\ lk[CurId].upstream = 0
  /\ resp.rcode = "SERVFAIL"

\* C8: a lookup that finds a non-expired entry for its key returns it with
\* responseTime 0 and fromCache true, without a call of the upstream
\* resolver and without a cache write, and the DNS answer carries the
\* cached response address and the cached ttl; the upstream resolver is
\* called only when neither tier gave an entry
C8_CacheHit ==
  /\ AnsweredFromCache =>
       LET t == lk[CurId]
           c == t.cached[1]
           r == t.result[1]
       IN /\ c.expiresAt > t.now
          /\ r.responseTime = 0
          /\ r.fromCache
          /\ r.listed = c.listed /\ r.response = c.response
          /\ r.error = c.error /\ r.ttl = c.ttl
          /\ t.upstream = 0
          /\ t.outcome = None
          /\ OwnPuts = {}
          /\ c.listed = "true" =>
               /\ resp.rcode = "NOERROR"
               /\ resp.answer = <<ARecord(req.qname, c.response, c.ttl)>>
  /\ (SingleActive /\ lk[CurId].upstream > 0) =>
       /\ lk[CurId].cached = None
       /\ lk[CurId].rows = None

\* a request answered from a Listed entry read from memcache
C8_Witness ==
  /\ AnsweredFromCache
  /\ lk[CurId].cached[1].cacheSource = "memcache"
  /\ lk[CurId].cached[1].listed = "true"
  /\ lk[CurId].upstream = 0
  /\ resp.answer = <<ARecord(req.qname, "127.0.0.2", 900)>>
  /\ resp.sent = 1

-----------------------------------------------------------------------------
(* C9, C10: no request is left without an answer *)

\* nothing that the handler of the request at hand set going is left to run
HandlerDone ==
  \/ req.path = "single" /\ lk[CurId].pc = "done"
  \/ req.path = "agg" /\ agg.n = req.n /\ agg.raced
  \/ req.path = "forward" /\ fwd.pc \in {"done", "failed", "timeout"}

\* C9: every decoded request receives a response, whichever handler it was
\* dispatched to: once the handler has nothing left to run, the response
\* has been sent
C9_NoRequestDropped ==
  (req.pc # "idle" /\ HandlerDone) => resp.sent = 1

\* C10: when the upstream resolver of a forwarded query fails, or does not
\* reply within the 5 s timeout, the client is answered SERVFAIL
C10_ForwardFailureServfail ==
  (req.path = "forward" /\ fwd.pc \in {"failed", "timeout"}) =>
    /\ resp.sent = 1
    /\ resp.rcode = "SERVFAIL"

-----------------------------------------------------------------------------
(* C11, C12: the classification of a query name *)

\* the zones the server owns: the aggregate zones and the hosts of the list
OwnedZones ==
  {[kind |-> "agg", domain |-> MultiRblZones[z].domain] :
     z \in 1..Len(MultiRblZones)}
    \cup {[kind |-> "single", domain |-> RblServersList[i].host] :
            i \in 1..Len(RblServersList)}

\* the owned zones a name lies under, and the labels in front of one
ZonesOver(q) == {z \in OwnedZones : EndsWithZone(q, z.domain)}
PrefixUnder(q, domain) == SubSeq(q, 1, Len(q) - Len(domain))

\* four labels, each the decimal text of a number in 0..255
DecimalOctets == {"0", "1", "2", "3", "4", "01", "02", "127", "255"}
WellFormedPrefix(labels) ==
  Len(labels) = 4 /\ \A i \in 1..Len(labels) : labels[i] \in DecimalOctets

\* the zone of the longest matching suffix, an aggregate zone before a
\* host of the list when both are as long
LongestZone(q) ==
  CHOOSE z \in ZonesOver(q) :
    \A y \in ZonesOver(q) :
      \/ Len(y.domain) < Len(z.domain)
      \/ Len(y.domain) = Len(z.domain) /\ (z.kind = "agg" \/ y.kind = "single")

\* C11: a name is classified by its longest matching zone suffix, whatever
\* the order of the zones in the configuration: an A query whose prefix
\* under that zone is an address goes to the handler of that zone
C11_LongestSuffix ==
  (req.pc # "idle" /\ req.qtype = "A" /\ ZonesOver(req.qname) # {}
     /\ WellFormedPrefix(PrefixUnder(req.qname,
                                      LongestZone(req.qname).domain)))
  => /\ req.path = LongestZone(req.qname).kind
     /\ req.path = "single" =>
          RblServersList[req.rbl].host = LongestZone(req.qname).domain

\* a name that lies under an owned zone with a prefix that is no address
\* under any of them
Malformed(q) ==
  /\ ZonesOver(q) # {}
  /\ \A z \in ZonesOver(q) : ~WellFormedPrefix(PrefixUnder(q, z.domain))

\* C12: a query under an owned zone whose prefix is malformed (not four
\* labels, or a label that is no number in 0..255) is forwarded to the
\* upstream resolver: no RBL lookup and no cache write is made for it, and
\* it is answered SERVFAIL only if the upstream request reports an error.
\* parseInt reads the label "1x" as the number 1, so that the name
\* 1x.0.0.127.zen.org is looked up as the address "127.0.0.1x"
C12_MalformedForwarded ==
  (req.pc # "idle" /\ Malformed(req.qname)) =>
    /\ req.path = "forward"
    /\ fwd.pc # "none"
    /\ \A id \in DOMAIN lk : id[1] # req.n
    /\ \A p \in puts : p.owner[1] # req.n
    /\ resp.rcode = "SERVFAIL" => fwd.pc = "failed"

\* the query 1x.0.0.127.zen.org answered from a lookup at the RBL, whose
\* result was written to the in-memory tier
C12_Witness ==
  /\ req.qname = <<"1x", "0", "0", "127">> \o HostA
  /\ req.path = "single"
  /\ resp.sent = 1
  /\ generateKey(<<"127", "0", "0", "1x">>, HostA) \in DOMAIN l1

-----------------------------------------------------------------------------
(* C13 .. C15: the clear operations and the text of the address *)

\* the address a text denotes, as the numbers of its parts
Address(ip) == [i \in 1..Len(ip) |-> ParseInt(ip[i])]

\* no tier holds an entry for the address of ip
HoldsNone(ip) ==
  /\ \A k \in DOMAIN l1 : Address(k[2]) # Address(ip)
  /\ \A k \in DOMAIN l2 : Address(k[1]) # Address(ip)

\* every put had completed and every get had returned when the clear
\* operation c was called
QuietBefore(c) ==
  /\ \A p \in puts : p.pc = "done" /\ p.doneAt < c[1]
  /\ \A g \in Gets : g[1] < c[1] => lk[g].pc = "done"

\* the gets called after the clear operation c had completed
GetsAfter(c) == {g \in Gets : lk[c].pc = "done" /\ g[1] > lk[c].doneAt}

\* C13: once clearIp(ip) has completed, and until the next put, no tier
\* holds an entry whose address is that of ip, whatever the text the entry
\* was put under, and a get of that address returns null
C13_ClearIpPurges ==
  \A c \in Clears :
    (lk[c].kind = "clearIp" /\ lk[c].pc = "done" /\ QuietBefore(c)) =>
      /\ HoldsNone(lk[c].ip)
      /\ \A g \in GetsAfter(c) : lk[g].pc = "done" => lk[g].cached = None

\* a put, then clearIp of its address, then a get that has returned
C13_Witness ==
  \E c \in Clears :
    /\ lk[c].kind = "clearIp" /\ lk[c].pc = "done" /\ QuietBefore(c)
    /\ puts # {}
    /\ \E g \in GetsAfter(c) : lk[g].pc = "done"

\* C14: once clearAll() has completed, no entry put before it was called is
\* returned by a get called afterwards, also when other gets were in flight
\* while it ran
C14_ClearAllPurges ==
  \A c \in Clears :
    (/\ lk[c].kind = "clearAll" /\ lk[c].pc = "done"
     /\ \A p \in puts : p.pc = "done" /\ p.doneAt < c[1]) =>
      \A g \in GetsAfter(c) : lk[g].pc = "done" => lk[g].cached = None

\* a put, then clearAll with a get in flight, then a get that has returned
C14_Witness ==
  \E c \in Clears :
    /\ lk[c].kind = "clearAll" /\ lk[c].pc = "done"
    /\ \E p \in puts : p.pc = "done" /\ p.doneAt < c[1]
    /\ \E g \in Gets : g[1] > c[1] /\ g[1] <= lk[c].doneAt
    /\ \E g \in GetsAfter(c) : lk[g].pc = "done"

\* C15: the address of a key is stored in one form in both tiers: the keys
\* of two texts of one address are one key
C15_CanonicalKeys ==
  /\ \A j, k \in DOMAIN l1 :
       (Address(j[2]) = Address(k[2]) /\ j[3] = k[3]) => j = k
  /\ \A j, k \in DOMAIN l2 :
       (Address(j[1]) = Address(k[1]) /\ j[2] = k[2]) => j = k

\* an entry put under one text of the address and read under the other
C15_Witness ==
  \E p \in puts : \E g \in Gets :
    /\ p.pc = "done" /\ p.doneAt < g[1]
    /\ p.d.ip # lk[g].ip
    /\ lk[g].pc = "done" /\ lk[g].cached # None

-----------------------------------------------------------------------------
(* C16: concurrent misses on one key *)

\* the calls that missed the cache and whose upstream lookup has settled
WentUpstream ==
  {id \in DOMAIN lk :
     lk[id].kind = "lookup" /\ lk[id].pc = "done" /\ lk[id].cached = None}

\* the entry e holds what a write of the upstream result r stores
HoldsResult(e, r) ==
  /\ e.listed = (IF r.listed = "true" THEN "true" ELSE "false")
  /\ e.response = r.response
  /\ e.error = r.error
  /\ e.ttl = r.ttl

\* two calls missed, got the same answer from upstream, and both writes
\* have reached both tiers
BothWritten(a, b) ==
  /\ a # b
  /\ lk[a].outcome = lk[b].outcome
  /\ DOMAIN lk = {a, b}
  /\ puts = {}

\* C16: when two concurrent misses on one key both look up upstream and
\* both write, and the upstream answers are identical, then after both
\* writes each tier holds the classification, response and ttl that one
\* write of that answer stores, whatever the order of the two sets in
\* memcached and of the two upserts in PostgreSQL
C16_ConcurrentMissesAgree ==
  \A a, b \in WentUpstream :
    BothWritten(a, b) =>
      LET r == lk[a].result[1]
      IN /\ DOMAIN l1 = {generateKey(lk[a].ip, HostA),
                         generateKey(lk[b].ip, HostA)}
         /\ \A key \in DOMAIN l1 : HoldsResult(l1[key].value, r)
         /\ DOMAIN l2 = {<<Ip1, HostA>>}
         /\ \A k \in DOMAIN l2 : HoldsResult(l2[k], r)

\* both writes done, the item in memcached from the later write and the
\* row from the earlier one: the upserts ran in the other order
C16_Witness ==
  \E a, b \in WentUpstream :
    /\ BothWritten(a, b)
    /\ lk[a].outcome[1].code = "ESERVFAIL"
    /\ lk[a].ip = lk[b].ip
    /\ l1[generateKey(lk[a].ip, HostA)].value.cachedAt
         > l2[<<Ip1, HostA>>].cachedAt

-----------------------------------------------------------------------------
(* C17, C18: repeated puts *)

\* p and q are puts of one (listed, response, error) on one address, q
\* called after p had completed, and no other put was made
Repeated(p, q) ==
  /\ puts = {p, q}
  /\ p.pc = "done" /\ q.pc = "done"
  /\ p.doneAt < q.owner[1]
  /\ Address(p.d.ip) = Address(q.d.ip)
  /\ p.d.listed = q.d.listed
  /\ p.d.response = q.d.response
  /\ p.d.error = q.d.error

\* what a get returns after the put q alone: the entry of q, or null once
\* it has expired
AsAfterOnly(q, c) ==
  IF c = None THEN q.d.expiresAt <= NowSec(clock)
  ELSE /\ SameValue(c[1], q.d)
       /\ c[1].cachedAt = q.d.cachedAt
       /\ c[1].expiresAt = q.d.expiresAt

\* C17: a put repeated on one key with the same (listed, response, error)
\* cannot be told from a single put: a get called after the second put
\* returns what it returns after that put alone, and the table holds one row
C17_RepeatedPut ==
  \A p, q \in puts :
    Repeated(p, q) =>
      /\ Cardinality(DOMAIN l2) = 1
      /\ \A g \in Gets :
           (g[1] > q.doneAt /\ lk[g].pc = "done") =>
             AsAfterOnly(q, lk[g].cached)

\* two puts one second apart and a get after them that has returned
C17_Witness ==
  \E p, q \in puts :
    /\ Repeated(p, q)
    /\ p.d.cachedAt < q.d.cachedAt
    /\ \E g \in Gets : g[1] > q.doneAt /\ lk[g].pc = "done"

\* C18: the table holds at most one row for an address and an RBL host,
\* whatever the texts the address was put under and however the upserts
\* interleave, and the row is filed under its own address and host
C18_OneRowPerKey ==
  /\ \A j, k \in DOMAIN l2 :
       (Address(j[1]) = Address(k[1]) /\ j[2] = k[2]) => j = k
  /\ \A k \in DOMAIN l2 : l2[k].ip = k[1] /\ l2[k].rblHost = k[2]

\* two puts of one address under its two texts, both in the table's one row
C18_Witness ==
  \E p, q \in puts :
    /\ p.d.ip = Ip1 /\ q.d.ip = Ip1Alt
    /\ p.pc = "done" /\ q.pc = "done"
    /\ DOMAIN l2 = {<<Ip1, HostA>>}

-----------------------------------------------------------------------------
(* C19: failures of memcached *)

\* the put that completed last before the get g was called
LastPutBefore(g) ==
  {p \in puts :
     /\ p.pc = "done" /\ p.doneAt < g[1]
     /\ \A q \in puts :
          (q.pc = "done" /\ q.doneAt < g[1]) => q.owner[1] <= p.owner[1]}

\* C19: with calls made one after the other and commands of memcached
\* failing, a get returns no expired entry, and while the entry of the put
\* before it has not expired it returns that entry
C19_ReadsSurviveL1Failure ==
  \A g \in Gets :
    lk[g].pc = "done" =>
      /\ lk[g].cached # None =>
           lk[g].cached[1].expiresAt > lk[g].checkedAt
      /\ \A p \in LastPutBefore(g) :
           lk[g].now < p.d.expiresAt =>
             /\ lk[g].cached # None
             /\ SameValue(lk[g].cached[1], p.d)
             /\ lk[g].cached[1].cachedAt = p.d.cachedAt

\* memcached holds the entry of the first put, the table the entry of the
\* second, whose set failed, and a get after both has returned
C19_Witness ==
  \E p, q \in puts : \E g \in Gets :
    /\ p.pc = "done" /\ q.pc = "done" /\ p.doneAt < q.owner[1]
    /\ ~SameValue(p.d, q.d)
    /\ generateKey(Ip1, HostA) \in DOMAIN l1
    /\ l1[generateKey(Ip1, HostA)].value = p.d
    /\ SameValue(l2[<<Ip1, HostA>>], q.d)
    /\ lk[g].pc = "done" /\ g[1] > q.doneAt

-----------------------------------------------------------------------------
(* C20: failures of PostgreSQL *)

\* C20: a failure of the durable store does not change the answer to a
\* single-RBL query: a failed read counts as a miss and the lookup goes
\* upstream, and whatever becomes of the write, the response carries the
\* classification of the upstream outcome (NOERROR with its first A record,
\* NXDOMAIN for ENOTFOUND and ENODATA, SERVFAIL for any other failure)
C20_StoreFailureHarmless ==
  SingleActive =>
    LET t == lk[CurId]
    IN /\ t.l2failed =>
            /\ t.pc \in {"up", "done"}
            /\ t.cached = None
            /\ t.pc = "done" => t.outcome # None
       /\ (t.pc = "done" /\ t.cached = None /\ t.outcome # None) =>
            LET o == t.outcome[1]
            IN /\ resp.sent = 1
               /\ o.kind = "answer" =>
                    /\ resp.rcode = "NOERROR"
                    /\ resp.answer =
                         <<ARecord(req.qname, o.records[1].address,
                                   t.result[1].ttl)>>
               /\ (o.kind = "error" /\ o.code \in {"ENOTFOUND", "ENODATA"}) =>
                    resp.rcode = "NXDOMAIN" /\ resp.answer = <<>>
               /\ (o.kind = "error" /\ o.code \notin {"ENOTFOUND", "ENODATA"}) =>
                    resp.rcode = "SERVFAIL" /\ resp.answer = <<>>

\* the second request for a name whose entry is in the table: its read
\* failed, the RBL answered, the write failed, and the answer is the A record
C20_Witness ==
  /\ SingleActive
  /\ req.n = 2
  /\ <<Ip1, HostA>> \in DOMAIN l2
  /\ l2[<<Ip1, HostA>>].expiresAt > lk[CurId].now
  /\ l2[<<Ip1, HostA>>].listed = "false"
  /\ lk[CurId].l2failed
  /\ lk[CurId].pc = "done"
  /\ \E p \in puts : p.owner = CurId /\ p.pc = "failed"
  /\ resp.sent = 1
  /\ resp.rcode = "NOERROR"
  /\ Len(resp.answer) = 1

-----------------------------------------------------------------------------
(* C21: without a working memcache the cache behaves as the PostgreSQL-    *)
(* only CacheDatabase                                                       *)

\* getCached of the PostgreSQL-only CacheDatabase
PgOnlyGetCached(table, ip, rblHost, now) ==
  LET rows == SelectCached(table, ip, rblHost, now)
  IN IF rows = None THEN None
     ELSE Some([rows[1] EXCEPT !.fromCache = TRUE])

\* the table of the PostgreSQL-only CacheDatabase after the first n calls
\* made so far, each applied whole and in order with the arguments and the
\* time of the call
RECURSIVE PgOnlyTable(_)
PgOnlyTable(n) ==
  IF n = 0 THEN <<>>
  ELSE LET prev == PgOnlyTable(n - 1)
           id == <<n, 0>>
       IN IF \E p \in puts : p.owner = id
          THEN Upsert(prev, (CHOOSE p \in puts : p.owner = id).d)
          ELSE IF id \in DOMAIN lk /\ lk[id].kind # "get"
          THEN DeleteBy(lk[id].kind, lk[id].ip, lk[id].now, prev)
          ELSE prev

\* the entry without the field that names the tier it was read from
Entry(c) == IF c = None THEN None ELSE Some([c[1] EXCEPT !.cacheSource = NULL])

\* C21: with memcache disabled or failing, memcache stays empty, every
\* getCached returns the entry the PostgreSQL-only getCached returns after
\* the same calls, every clearAll, clearIp and cleanExpired returns the
\* same row count, and between calls the table is the same
C21_L2OnlyRefinement ==
  /\ l1 = <<>>
  /\ \A id \in DOMAIN lk :
       LET t == lk[id]
           before == PgOnlyTable(id[1] - 1)
       IN t.pc = "done" =>
            IF t.kind = "get"
            THEN Entry(t.cached) = PgOnlyGetCached(before, t.ip, t.rblHost, t.now)
            ELSE t.result =
                   Some(RowCount(before,
                                 DeleteBy(t.kind, t.ip, t.now, before)))
  /\ Idle => l2 = PgOnlyTable(nreq)

\* a put, then a cleanExpired that removed its expired row, then a get that
\* found nothing, all with memcache enabled and failing
C21_Witness ==
  /\ l1Enabled
  /\ \E p \in puts : p.owner = <<1, 0>> /\ p.pc = "done"
  /\ <<2, 0>> \in DOMAIN lk /\ lk[<<2, 0>>].kind = "cleanExpired"
  /\ lk[<<2, 0>>].pc = "done" /\ lk[<<2, 0>>].result = Some([rowCount |-> 1])
  /\ <<3, 0>> \in DOMAIN lk /\ lk[<<3, 0>>].kind = "get"
  /\ lk[<<3, 0>>].pc = "done" /\ lk[<<3, 0>>].cached = None

-----------------------------------------------------------------------------
(* C22: after a restart the entries are those of PostgreSQL *)

PutsSinceRestart == {p \in puts : p.owner[1] > RestartId[1]}

-----------------------------------------------------------------------------
(* C23, C24: the aggregate answer when nothing, or something, is listed *)

\* C23: an aggregate request none of whose children completed as listed
\* before the wait ended (none completed at all included) is answered with
\* NXDOMAIN and no record
C23_NothingListedNxdomain ==
  (AggAnswered /\ ListedAtWake = {}) =>
    /\ resp.rcode = "NXDOMAIN"
    /\ resp.answer = <<>>
    /\ resp.authority = <<>>
    /\ resp.additional = <<>>
    /\ resp.sent = 1

\* the timer ended the wait before any child had completed
C23_Witness ==
  /\ AggAnswered
  /\ agg.timedOut
  /\ agg.atWake = {}
  /\ resp.rcode = "NXDOMAIN"
  /\ resp.answer = <<>>

\* C24: an aggregate A query with a listed child among the completed ones
\* is answered with one A record, 127.0.0.2, TTL 300, and nothing else
C24_ListedARecord ==
  (AggAnswered /\ ListedAtWake # {} /\ req.qtype = "A") =>
    /\ resp.rcode = "NOERROR"
    /\ resp.answer = <<ARecord(req.qname, "127.0.0.2", 300)>>
    /\ resp.authority = <<>>
    /\ resp.additional = <<>>

\* the only listing reported 127.0.0.4 with a TTL of 60
C24_Witness ==
  /\ AggAnswered
  /\ req.qtype = "A"
  /\ ListedAtWake # {}
  /\ \A i \in ListedAtWake :
       /\ lk[<<agg.n, i>>].result[1].response = "127.0.0.4"
       /\ lk[<<agg.n, i>>].result[1].ttl = 60
  /\ Len(resp.answer) = 1

-----------------------------------------------------------------------------
(* C25: the TXT records of an aggregate answer *)

\* the places of completedResults that hold a listing, and the first n
ListedPlaces == {i \in 1..Len(agg.completedResults) :
                   agg.completedResults[i].listed = "true"}
FirstListed(n) ==
  {i \in ListedPlaces : Cardinality({j \in ListedPlaces : j < i}) < n}

\* C25: a TXT answer with listedCount > 0 holds one summary record, then
\* one record for each of the first min(listedCount, 5) listings, then one
\* overflow record exactly when listedCount > 5: 7 records at most, every
\* one a TXT record with TTL 300
C25_TxtRecords ==
  (AggAnswered /\ req.qtype = "TXT" /\ ListedPlaces # {}) =>
    LET n == Cardinality(ListedPlaces)
        shown == IF n < 5 THEN n ELSE 5
    IN /\ resp.rcode = "NOERROR"
       /\ Len(resp.answer) = 1 + shown + (IF n > 5 THEN 1 ELSE 0)
       /\ Len(resp.answer) <= 7
       /\ \A j \in 1..Len(resp.answer) :
            resp.answer[j].type = "TXT" /\ resp.answer[j].ttl = 300
       /\ TxtPlaces("summary") = {1}
       /\ resp.answer[1].txt.a = n
       /\ TxtPlaces("listed") = 2..(1 + shown)
       /\ {resp.answer[j].txt.name : j \in TxtPlaces("listed")}
            = {agg.completedResults[i].name : i \in FirstListed(5)}
       /\ TxtPlaces("more") = IF n > 5 THEN {Len(resp.answer)} ELSE {}
       /\ \A j \in TxtPlaces("more") : resp.answer[j].txt.a = n - 5

\* seven listings: the summary, five of them, and the overflow record
C25_Witness ==
  /\ AggAnswered
  /\ req.qtype = "TXT"
  /\ Cardinality(ListedPlaces) = 7
  /\ Len(resp.answer) = 7
  /\ resp.answer[7].txt.kind = "more"
  /\ resp.answer[7].txt.a = 2

-----------------------------------------------------------------------------
(* C26: child lookups that end in error *)

\* the children that had completed without error when the wait ended
CleanAtWake ==
  {i \in agg.atWake : lk[<<agg.n, i>>].result[1].error = NULL}

\* C26: a child lookup that ended in error counts as not completed: the
\* aggregate answer is never SERVFAIL, and its summary counts as completed
\* the children that completed without error, and as listed the listed ones
C26_ErrorsAbsorbed ==
  AggAnswered =>
    /\ resp.rcode # "SERVFAIL"
    /\ \A j \in TxtPlaces("summary") :
         /\ resp.answer[j].txt.a = Cardinality(ListedAtWake)
         /\ resp.answer[j].txt.b = Cardinality(CleanAtWake)

\* one child was listed and the other got SERVFAIL from the RBL before the
\* wait ended: the summary says two were checked
C26_Witness ==
  /\ AggAnswered
  /\ req.qtype = "TXT"
  /\ Cardinality(ListedAtWake) = 1
  /\ \E i \in agg.atWake : lk[<<agg.n, i>>].result[1].error = "ESERVFAIL"
  /\ \E j \in TxtPlaces("summary") :
       resp.answer[j].txt.a = 1 /\ resp.answer[j].txt.b = 2

-----------------------------------------------------------------------------
(* C27: the children the aggregate answer did not wait for *)

\* the race of the aggregate has settled while child i had not completed
LeftBehind(i) ==
  /\ agg.raced
  /\ <<agg.n, i>> \in DOMAIN lk
  /\ i \notin agg.atWake

\* the children of a request for the zone two.net
LateChildren ==
  LET rblsToCheck == RblsToCheck(MultiRblZones[2])
  IN {rblsToCheck[j] : j \in 1..Len(rblsToCheck)}

\* the table holds an entry for the address and the RBL of child i
Written(i) == <<Inet(Ip1), RblServersList[i].host>> \in DOMAIN l2

\* a single-RBL lookup is about to read a table that holds an entry for
\* its key that has not expired
LaterLookup ==
  LET id == <<req.n, 0>>
  IN /\ req.path = "single" /\ req.pc = "lookup"
     /\ lk[id].pc = "l2sel"
     /\ SelectCached(l2, lk[id].ip, lk[id].rblHost, lk[id].now) # None

\* the single-RBL request was answered from the cache, the resolver was
\* not asked
ServedFromCache ==
  LET id == <<req.n, 0>>
  IN /\ req.path = "single" /\ req.pc = "sent"
     /\ lk[id].pc = "done"
     /\ lk[id].upstream = 0
     /\ lk[id].result[1].fromCache

\* C27: a child that had not completed when the aggregate answer was built
\* goes on: in the end its result is in the cache, and a later lookup of
\* the same address at the same RBL that finds the entry unexpired is
\* answered from it
C27_LateChildCached ==
  /\ \A i \in LateChildren : LeftBehind(i) ~> Written(i)
  /\ LaterLookup ~> ServedFromCache

\* the aggregate answer was sent on the timer without the child of the
\* first RBL; its result was written later and served the single request
C27_Witness ==
  /\ 1 \notin agg.atWake
  /\ agg.timedOut
  /\ Written(1)
  /\ ServedFromCache
  /\ req.n = 2

-----------------------------------------------------------------------------
(* C28 .. C30: the custom RBL *)

CustomTasks == {id \in DOMAIN lk : lk[id].kind = "custom"}

\* the request at hand is a custom-RBL query that has been answered
CustomAnswered == req.path = "custom" /\ req.pc = "sent"

\* C28: a custom-RBL query leaves both tiers of the cache as they were,
\* reads the table custom_rbl_entries as it is when its SELECT runs, and is
\* answered from the rows it read
C28_CustomNotCached ==
  /\ [](/\ l1 = <<>> /\ l2 = <<>> /\ puts = {}
        /\ CustomAnswered =>
             resp = Send(CustomResponse(NewResponse, req.qname,
                                        CustomResult(lk[<<req.n, 0>>].rows))))
  /\ [][\A id \in CustomTasks :
          (lk[id].pc = "csel" /\ id \in DOMAIN lk' /\ lk'[id].pc = "crep") =>
            IF Matching(custom, lk[id].ip) = {}
            THEN lk'[id].rows = None
            ELSE /\ lk'[id].rows # None
                 /\ lk'[id].rows[1].id \in Matching(custom, lk[id].ip)
                 /\ lk'[id].rows[1].reason
                      = custom[lk'[id].rows[1].id].reason]_vars

\* two queries for one address: the first was answered as listed, then the
\* entry was delisted, and the second was answered as not listed
C28_Witness ==
  /\ CustomAnswered
  /\ req.n = 2
  /\ resp.rcode = "NXDOMAIN"
  /\ lk[<<2, 0>>].rows = None
  /\ \E id \in DOMAIN custom :
       ~custom[id].listed /\ Contains(custom[id].network, Ip1)

\* C29: the SELECT of checkCustomRbl returns, of the listed entries that
\* contain the address, the one of the longest prefix and, of several of
\* that length, the one of the smallest id; none if there is no such entry
C29_LongestPrefixSmallestId ==
  [][\A id \in CustomTasks :
       (lk[id].pc = "csel" /\ id \in DOMAIN lk' /\ lk'[id].pc = "crep") =>
         LET m == Matching(custom, lk[id].ip)
             longest == {e \in m : \A o \in m :
                           Len(custom[o].network) <= Len(custom[e].network)}
         IN IF m = {} THEN lk'[id].rows = None
            ELSE /\ lk'[id].rows # None
                 /\ lk'[id].rows[1].id \in longest
                 /\ \A o \in longest : lk'[id].rows[1].id <= o]_vars

\* entries 1 and 2 are the same network, both listed; the answer carries
\* the reason of entry 2
C29_Witness ==
  /\ CustomAnswered
  /\ lk[<<req.n, 0>>].rows # None
  /\ lk[<<req.n, 0>>].rows[1].id = 2
  /\ custom[1].listed
  /\ custom[1].network = custom[2].network
  /\ custom[1].reason # custom[2].reason
  /\ Len(resp.answer) = 2
  /\ resp.answer[2].txt.name = CustomResult(lk[<<req.n, 0>>].rows).reason

\* the table lists the address of the request at hand
ListedNow(ip) == ip # NoIp /\ Matching(custom, ip) # {}

\* C30: for an address the custom RBL lists, an A query under its zone is
\* answered with an A record 127.0.0.2 of TTL 3600, and a TXT query is
\* answered by the server itself with one TXT record that carries the
\* reason of the entry or "Listed in custom blocklist"
C30_CustomListedAnswers ==
  /\ (CustomAnswered /\ lk[<<req.n, 0>>].rows # None) =>
       /\ resp.rcode = "NOERROR"
       /\ \E j \in 1..Len(resp.answer) :
            resp.answer[j] = ARecord(req.qname, "127.0.0.2", 3600)
  /\ (/\ req.qtype = "TXT"
      /\ EndsWithZone(req.qname, CustomZone)
      /\ ListedNow(parseReverseIp(req.qname, CustomZone))) =>
       /\ req.path # "forward"
       /\ req.pc = "sent" =>
            /\ Len(resp.answer) = 1
            /\ resp.answer[1].type = "TXT"
            /\ resp.answer[1].txt.kind = "reason"

\* a TXT query for a listed address was handed to the upstream resolver,
\* whose failure became the answer
C30_Witness ==
  /\ req.qtype = "TXT"
  /\ EndsWithZone(req.qname, CustomZone)
  /\ ListedNow(parseReverseIp(req.qname, CustomZone))
  /\ req.path = "forward"
  /\ req.pc = "sent"
  /\ resp.rcode = "SERVFAIL"
  /\ resp.answer = <<>>

-----------------------------------------------------------------------------
(* C31: AAAA queries under an RBL zone *)

\* C31: an AAAA query under the zone of an RBL, of an aggregate or of the
\* custom RBL is not forwarded, and the answer the server sends to it has
\* no answer record
C31_AaaaNoData ==
  (req.qtype = "AAAA" /\ req.pc # "idle") =>
    /\ req.path # "forward"
    /\ req.pc = "sent" => resp.answer = <<>>

\* an AAAA query under an aggregate zone answered with an A record
C31_Witness ==
  /\ req.qtype = "AAAA"
  /\ AggAnswered
  /\ Len(resp.answer) = 1
  /\ resp.answer[1].type = "A"

-----------------------------------------------------------------------------
(* C32: a second lookupIpCached right after the first *)

\* C32: every result of a lookupIpCached made after an earlier one for the
\* same address has returned, the cache empty before, comes from the cache
C32_SecondLookupCached ==
  \A id \in DOMAIN lk :
    (id[1] = 2 /\ lk[id].pc = "done") => lk[id].result[1].fromCache

\* memcache disabled: the second lookup asked the resolver for the first
\* RBL again, its SELECT having run before the upsert of the first lookup
C32_Witness ==
  /\ ~l1Enabled
  /\ <<2, 1>> \in DOMAIN lk
  /\ lk[<<2, 1>>].pc = "done"
  /\ lk[<<2, 1>>].upstream = 1
  /\ ~lk[<<2, 1>>].result[1].fromCache

-----------------------------------------------------------------------------
(* C33: the three classes of a cache entry *)

\* every entry there is: the items of memcache, the rows of the table and
\* what getCached has returned
StoredOrReturned ==
  {l1[key].value : key \in DOMAIN l1}
    \cup {l2[k] : k \in DOMAIN l2}
    \cup {lk[id].cached[1] : id \in {i \in DOMAIN lk : lk[i].cached # None}}

\* the class of an entry, read from its columns
ClassOfEntry(e) ==
  IF e.listed = "true" THEN "Listed"
  ELSE IF e.error = NULL THEN "NotListed" ELSE "Error"

\* the class of what the resolver did
ClassOfOutcome(o) ==
  IF o.kind = "answer" THEN "Listed"
  ELSE IF o.code \in {"ENOTFOUND", "ENODATA"} THEN "NotListed" ELSE "Error"

\* C33: every entry, in memcache, in the table or returned by getCached,
\* has a response exactly when it is listed, has no error when it is not
\* listed, and is of the class of an upstream lookup that wrote it; a
\* lookup served from an entry returns a result of the class of the entry
C33_ClassesDistinct ==
  /\ \A e \in StoredOrReturned :
       /\ e.listed \in {"true", "false"}
       /\ e.listed = "true" => e.response # NULL
       /\ ClassOfEntry(e) = "NotListed" => e.response = NULL /\ e.error = NULL
       /\ ClassOfEntry(e) = "Error" => e.error # NULL
       /\ \E id \in WentUpstream :
            /\ HoldsResult(e, lk[id].result[1])
            /\ ClassOfEntry(e) = ClassOfOutcome(lk[id].outcome[1])
  /\ \A id \in DOMAIN lk :
       (lk[id].pc = "done" /\ lk[id].cached # None) =>
         ClassOfEntry(lk[id].result[1]) = ClassOfEntry(lk[id].cached[1])

\* a lookup got SERVFAIL from the RBL and wrote the error; the next was
\* served from the entry and returned the error
C33_Witness ==
  \E a, b \in DOMAIN lk :
    /\ lk[a].pc = "done" /\ lk[a].cached = None
    /\ lk[a].outcome[1].code = "ESERVFAIL"
    /\ lk[b].pc = "done" /\ lk[b].cached # None
    /\ lk[b].result[1].error = "ESERVFAIL"
    /\ lk[b].result[1].listed = "false"

-----------------------------------------------------------------------------
(* C34: the TTL of a listed result *)

\* the TTLs the resolver reported with an answer
RecordTtls(records) == {records[i].ttl : i \in 1..Len(records)}

\* the largest of a set of numbers
Largest(S) == CHOOSE n \in S : \A m \in S : m <= n

\* the lookups the resolver answered with records
Answered ==
  {id \in DOMAIN lk : lk[id].pc = "done" /\ lk[id].outcome # None
                        /\ lk[id].outcome[1].kind = "answer"}

\* C34: the ttl of a listed result is the TTL the resolver reported, and 1
\* when that TTL is 0 (of the first record, or of all the records: both
\* readings are allowed here); every stored entry has a ttl above 0
C34_TtlAtLeastOne ==
  /\ \A id \in Answered :
       LET records == lk[id].outcome[1].records
       IN lk[id].result[1].ttl \in
            { Largest({records[1].ttl, 1}),
              Largest(RecordTtls(records) \cup {1}) }
  /\ \A e \in CacheEntries : e.ttl > 0

\* the resolver reported TTL 0 for the first record and the result says 3600
C34_Witness ==
  \E id \in Answered :
    /\ lk[id].outcome[1].records[1].ttl = 0
    /\ lk[id].result[1].ttl = TtlDefault
    /\ \E key \in DOMAIN l1 : l1[key].value.ttl = TtlDefault

-----------------------------------------------------------------------------
(* C35: the interval timers at shutdown *)

\* C35: once stop() has returned nothing is started any more: no sweep of
\* expired entries, no statistics, no request
C35_TimersCancelled ==
  ~srv.listening => \A id \in DOMAIN lk : id[1] <= srv.stoppedAt

\* after stop() the sweep has run and deleted a row, and the statistics
\* have been read
C35_Witness ==
  /\ ~srv.listening
  /\ \E id \in TimerTasks :
       /\ id[1] > srv.stoppedAt
       /\ lk[id].kind = "cleanExpired"
       /\ lk[id].pc = "done"
       /\ lk[id].result[1].rowCount = 1
  /\ \E id \in TimerTasks :
       /\ id[1] > srv.stoppedAt
       /\ lk[id].kind = "stats"
       /\ lk[id].pc = "done"

-----------------------------------------------------------------------------
(* C36: duplicates in the custom blocklist *)

\* C36: an entry whose network is already in the table is rejected, so no
\* two rows of custom_rbl_entries have the same network
C36_NoDuplicateNetwork ==
  \A a, b \in DOMAIN custom :
    a # b => custom[a].network # custom[b].network

\* the same network was added twice and both rows are in the table
C36_Witness ==
  \E a, b \in DOMAIN custom :
    /\ a < b
    /\ custom[a].network = custom[b].network
    /\ custom[a].listed /\ custom[b].listed

-----------------------------------------------------------------------------
(* C37: parsing the reversed text of an address gives the address back *)

\* the address whose reversed text the query name starts with
AddressOf(qname) == Reverse(SubSeq(qname, 1, 4))

\* C37: parseReverseIp and parseMultiRblIp, applied to reverseIp(x) followed
\* by the zone, return x, whatever the labels of the zone are
C37_ParseInvertsReverse ==
  req.pc = "parsed" => req.ip = AddressOf(req.qname)

\* 0.127.0.2 under the zone 0.127: the first '.0.127' of the name is inside
\* the reversed address, and the parser returns 127.0.0.2
C37_Witness ==
  /\ req.pc = "parsed"
  /\ ParseZones[req.rbl] = <<"0", "127">>
  /\ AddressOf(req.qname) = <<"0", "127", "0", "2">>
  /\ req.ip = <<"127", "0", "0", "2">>

-----------------------------------------------------------------------------
(* C38: the two tiers after concurrent writes of one key *)

\* the writes that were made have all been answered
AllPutsDone == puts # {} /\ \A p \in puts : p.pc = "done"

\* two copies of an entry say the same
SameEntry(a, b) ==
  /\ a.listed = b.listed
  /\ a.response = b.response
  /\ a.error = b.error
  /\ a.ttl = b.ttl
  /\ a.expiresAt = b.expiresAt

\* C38: once every write of a key has completed, the item of memcache and
\* the row of the table, when both are there and fresh, say the same
C38_TiersAgree ==
  LET key == generateKey(Ip1, HostA)
      k == <<Ip1, HostA>>
  IN (/\ AllPutsDone
      /\ key \in DOMAIN l1
      /\ k \in DOMAIN l2
      /\ l1[key].value.expiresAt > NowSec(clock)
      /\ l2[k].expiresAt > NowSec(clock))
     => SameEntry(l1[key].value, l2[k])

\* two writes of different classes have completed; memcache holds the
\* listed one, the table the other, and a get that started after both
\* returned the item of memcache
C38_Witness ==
  LET key == generateKey(Ip1, HostA)
      k == <<Ip1, HostA>>
  IN /\ AllPutsDone
     /\ key \in DOMAIN l1 /\ k \in DOMAIN l2
     /\ l1[key].value.listed = "true"
     /\ l2[k].listed = "false"
     /\ \E id \in DOMAIN lk :
          /\ lk[id].pc = "done"
          /\ \A p \in puts : p.doneAt < id[1]
          /\ lk[id].cached # None
          /\ lk[id].cached[1].listed = "true"
          /\ lk[id].cached[1].cacheSource = "memcache"

-----------------------------------------------------------------------------
(* C39: how often send() is called for one request *)

\* C39: response.send() is called at most once for a request
C39_SendAtMostOnce == resp.sent <= 1

\* a query of one RBL whose send() throws: the catch of handleQuery calls
\* send() again, and when that throws too the catch of the 'request'
\* handler calls it a third time
C39_Witness ==
  /\ req.path = "single"
  /\ req.pc = "sent"
  /\ srv.sendThrows = MaxThrows
  /\ resp.sent = 3
  /\ resp.rcode = "SERVFAIL"

-----------------------------------------------------------------------------
(* C40: NXDOMAIN from the custom RBL *)

\* C40: a custom-RBL query is answered NXDOMAIN only by a lookup whose SELECT
\* on custom_rbl_entries ran and found no listed network with the address;
\* a lookup that ends at the configuration or at a failed SELECT is
\* answered SERVFAIL; an empty result of the SELECT means that the table had
\* no such network when it ran
C40_NxdomainOnlyFromStore ==
  [][\A id \in CustomTasks :
       /\ (lk[id].pc # "done" /\ lk'[id].pc = "done") =>
            /\ resp'.sent = 1
            /\ resp'.rcode = "NXDOMAIN" =>
                 lk[id].pc = "crep" /\ lk[id].rows = None
            /\ lk[id].pc \in {"ccfg", "csel"} =>
                 resp'.rcode = "SERVFAIL" /\ resp'.answer = <<>>
       /\ (lk[id].pc = "csel" /\ lk'[id].pc = "crep"
             /\ lk'[id].rows = None) =>
            \A e \in DOMAIN custom :
              ~(custom[e].listed /\ Contains(custom[e].network, lk[id].ip))
    ]_vars

\* the table lists a network with the address, the SELECT failed and the
\* answer is SERVFAIL
C40_Witness ==
  /\ CustomAnswered
  /\ resp.rcode = "SERVFAIL"
  /\ \E id \in CustomTasks :
       /\ id[1] = req.n
       /\ lk[id].pc = "done"
       /\ lk[id].result[1].error \in SelectErrors
       /\ \E e \in DOMAIN custom :
            custom[e].listed /\ Contains(custom[e].network, lk[id].ip)

=============================================================================
